---------------------------- MODULE Spec2Model ----------------------------
(***************************************************************************)
(* The Monkey bytecode pipeline: instruction encoding (code), the          *)
(* single-pass compiler with its symbol table, and the stack virtual       *)
(* machine (vm).  The machine executes one instruction per step.           *)
(*                                                                         *)
(* The instruction encoding (opcodes 0 .. 25), the objects, the AST nodes, *)
(* the REPL and the machine follow the Go sources: the machine has cases   *)
(* for OpConstant .. OpSetGlobal only and passes over any other byte, and  *)
(* the REPL makes a new compiler and a new machine for every line.  The    *)
(* sources hold no compiler.go and no symbol table: the compiler follows   *)
(* the design specification (sections 4.3 and 4.4) and emits through       *)
(* code.Make, to which the opcodes of builtins and closures, which code.go *)
(* does not declare, are undefined.                                        *)
(*                                                                         *)
(* Integers: object.Integer holds an int64.  The programs explored here    *)
(* keep every intermediate result far inside that range, so the int64      *)
(* wrap-around never occurs and arithmetic is written over the integers;   *)
(* Go's division truncates toward zero and is modelled by GoDiv.           *)
(***************************************************************************)
EXTENDS Integers, Sequences, FiniteSets, TLC

(***************************************************************************)
(* code: opcodes (code.go, iota order) and their operand widths            *)
(***************************************************************************)
OpConstant == 0
OpAdd == 1
OpSub == 2
OpMul == 3
OpDiv == 4
OpPop == 5
OpTrue == 6
OpFalse == 7
OpEqual == 8
OpNotEqual == 9
OpGreaterThan == 10
OpMinus == 11
OpBang == 12
OpJumpNotTruthy == 13
OpJump == 14
OpNull == 15
OpGetGlobal == 16
OpSetGlobal == 17
OpGetLocal == 18
OpSetLocal == 19
OpArray == 20
OpHash == 21
OpIndex == 22
OpCall == 23
OpReturnValue == 24
OpReturn == 25

\* definitions: the keys of the map, OpConstant .. OpReturn.
DefinedOpcodes == OpConstant .. OpReturn

\* definitions: the operand widths of each opcode.
OperandWidth(op) ==
    CASE op \in {OpConstant, OpJumpNotTruthy, OpJump, OpGetGlobal,
                 OpSetGlobal, OpArray, OpHash} -> <<2>>
      [] op \in {OpGetLocal, OpSetLocal, OpCall} -> <<1>>
      [] OTHER -> <<>>

\* PutUint16 with the byte order reversed (least significant byte first).
PutUint16LittleEndian(o) == << o % 256, (o % 65536) \div 256 >>

\* binary.BigEndian.PutUint16 of uint16(o): most significant byte first.
PutUint16(o) == << (o % 65536) \div 256, o % 256 >>

RECURSIVE EncodeOperands(_, _)
EncodeOperands(widths, operands) ==
    IF operands = <<>> THEN
        \* bytes of operands never supplied stay zero (make([]byte, n))
        IF widths = <<>> THEN <<>>
        ELSE [k \in 1 .. Head(widths) |-> 0] \o EncodeOperands(Tail(widths), <<>>)
    ELSE
        (IF Head(widths) = 1 THEN << Head(operands) % 256 >>
         ELSE PutUint16(Head(operands)))
        \o EncodeOperands(Tail(widths), Tail(operands))

\* func Lookup(op byte) (*Definition, error): whether a definition is found.
Lookup(op) == op \in DefinedOpcodes

\* Make(op, operands...): the opcode byte followed by its operands; the
\* empty instruction for an opcode without a definition.
Make(op, operands) ==
    IF op \notin DefinedOpcodes THEN <<>>
    ELSE <<op>> \o EncodeOperands(OperandWidth(op), operands)

(***************************************************************************)
(* The opcodes of builtins and closures in the instruction-set table of    *)
(* the design.  code.go declares none of them: to code.Lookup, code.Make   *)
(* and the machine the bytes 26 .. 29 are undefined, and an instruction    *)
(* the compiler emits for one of them is empty.                            *)
(***************************************************************************)
OpGetBuiltin == 26
OpClosure == 27
OpGetFree == 28
OpCurrentClosure == 29

\* Uint16 read least significant byte first.
ReadUint16LittleEndian(ins, at) == ins[at + 2] * 256 + ins[at + 1]

\* ReadUint16(ins[at:]) and ReadUint8(ins[at:]); `at` is a 0-based offset.
ReadUint16(ins, at) == ins[at + 1] * 256 + ins[at + 2]

ReadUint8(ins, at) == ins[at + 1]

\* The loop of ReadOperands from `offset` on, over the widths left.
RECURSIVE ReadOperandsFrom(_, _, _)
ReadOperandsFrom(widths, ins, offset) ==
    IF widths = <<>> THEN [operands |-> <<>>, offset |-> offset]
    ELSE LET rest == ReadOperandsFrom(Tail(widths), ins, offset + Head(widths))
             operand == CASE Head(widths) = 1 -> ReadUint8(ins, offset)
                          [] Head(widths) = 2 -> ReadUint16(ins, offset)
                          [] OTHER -> 0
         IN  [operands |-> <<operand>> \o rest.operands, offset |-> rest.offset]

\* ReadOperands(def, ins) for the definition of op: the operands and the
\* number of bytes read.
ReadOperands(op, ins) == ReadOperandsFrom(OperandWidth(op), ins, 0)

(***************************************************************************)
(* object: runtime values.  True, False and Null are the VM's singletons;  *)
(* Nil is Go's nil interface value (a slot nothing was stored in).         *)
(***************************************************************************)
INTEGER_OBJ == "INTEGER"
BOOLEAN_OBJ == "BOOLEAN"
NULL_OBJ == "NULL"
STRING_OBJ == "STRING"
COMPILED_FUNCTION_OBJECT == "COMPILED_FUNCTION_OBJECT"
CLOSURE_OBJ == "CLOSURE"
NIL == "nil"

Integer(n) == [type |-> INTEGER_OBJ, value |-> n]
True == [type |-> BOOLEAN_OBJ, value |-> 1]
False == [type |-> BOOLEAN_OBJ, value |-> 0]
Null == [type |-> NULL_OBJ, value |-> 0]
Nil == [type |-> NIL, value |-> 0]

\* &object.String{Value: value}: every allocation is an object of its own,
\* told apart by addr (the slot of the constant pool it was made for).
String(value, addr) == [type |-> STRING_OBJ, value |-> value, addr |-> addr]

\* &object.CompiledFunction{...}: an allocation of its own too; addr tells
\* two functions with the same instructions apart.
CompiledFunction(ins, numLocals, numParameters, addr) ==
    [type |-> COMPILED_FUNCTION_OBJECT, Instructions |-> ins,
     NumLocals |-> numLocals, NumParameters |-> numParameters, addr |-> addr]

\* type Closure struct { Fn *CompiledFunction; Free []Object }: every
\* &object.Closure{...} is an allocation of its own, told apart by addr.
Closure(fn, free, addr) ==
    [type |-> CLOSURE_OBJ, Fn |-> fn, Free |-> free, addr |-> addr]

\* func nativeBoolToBooleanObject(input bool) *object.Boolean
nativeBoolToBooleanObject(input) == IF input THEN True ELSE False

\* isTruthy without its Boolean and Null cases: every object is truthy.
isTruthyAlways(obj) == TRUE

\* func isTruthy(obj object.Object) bool
isTruthy(obj) ==
    CASE obj.type = BOOLEAN_OBJ -> obj.value = 1
      [] obj.type = NULL_OBJ -> FALSE
      [] OTHER -> TRUE

\* Go's integer division truncates toward zero (\div floors).
GoDiv(a, b) ==
    LET q == (IF a < 0 THEN -a ELSE a) \div (IF b < 0 THEN -b ELSE b)
    IN  IF (a < 0) = (b < 0) THEN q ELSE -q

(***************************************************************************)
(* ast: the nodes the compiler consumes                                    *)
(***************************************************************************)
\* The digits of n >= 0 written in decimal.
RECURSIVE Decimal(_)
Decimal(n) == IF n < 10 THEN <<n>> ELSE Append(Decimal(n \div 10), n % 10)

\* &ast.IntegerLiteral{Token: token, Value: value}
IntegerLiteralOf(token, value) ==
    [kind |-> "IntegerLiteral", Token |-> token, Value |-> value]
\* The IntegerLiteral the parser makes of the decimal text of n.
IntegerLiteral(n) == IntegerLiteralOf([Type |-> "INT", Literal |-> Decimal(n)], n)
Boolean(b) == [kind |-> "Boolean", Value |-> b]
StringLiteral(s) == [kind |-> "StringLiteral", Value |-> s]
\* Pairs map[Expression]Expression: a Go map from key nodes to value
\* nodes, kept as the sequence of its entries <<key, value>>.  The nodes
\* are pointers: two entries may hold keys that read the same.
HashLiteral(pairs) == [kind |-> "HashLiteral", Pairs |-> pairs]
ArrayLiteral(elements) == [kind |-> "ArrayLiteral", Elements |-> elements]
IndexExpression(left, index) ==
    [kind |-> "IndexExpression", Left |-> left, Index |-> index]
Identifier(name) == [kind |-> "Identifier", Value |-> name]
PrefixExpression(op, right) ==
    [kind |-> "PrefixExpression", Operator |-> op, Right |-> right]
InfixExpression(op, left, right) ==
    [kind |-> "InfixExpression", Operator |-> op, Left |-> left, Right |-> right]
\* Consequence and Alternative are blocks (sequences of statements);
\* HasAlternative is FALSE when the else branch is absent.
IfExpression(cond, cons, hasAlt, alt) ==
    [kind |-> "IfExpression", Condition |-> cond, Consequence |-> cons,
     HasAlternative |-> hasAlt, Alternative |-> alt]
FunctionLiteral(params, body) ==
    [kind |-> "FunctionLiteral", Parameters |-> params, Body |-> body]
CallExpression(fn, args) ==
    [kind |-> "CallExpression", Function |-> fn, Arguments |-> args]
LetStatement(name, value) ==
    [kind |-> "LetStatement", Name |-> name, Value |-> value]
ReturnStatement(value) == [kind |-> "ReturnStatement", ReturnValue |-> value]
ExpressionStatement(e) == [kind |-> "ExpressionStatement", Expression |-> e]
BlockStatement(stmts) == [kind |-> "BlockStatement", Statements |-> stmts]

\* The orders in which a map of n entries may be ranged over.
Orders(n) ==
    {order \in [1 .. n -> 1 .. n] : \A i, j \in 1 .. n : order[i] = order[j] => i = j}


(***************************************************************************)
(* ast: String().  A call ends with the text it returns or with the panic  *)
(* of a method called on nil; Go ranges over the map of a hash literal in  *)
(* an order of its own choosing, each time it ranges: NodeString(node) is  *)
(* the set of the outcomes node.String() may have.                         *)
(***************************************************************************)
Written(text) == [panic |-> FALSE, text |-> text]

\* invalid memory address or nil pointer dereference
NilString == [panic |-> TRUE, text |-> ""]

\* One text written after another: the first panic ends the call.
Then(first, second) ==
    { IF a.panic THEN a ELSE IF b.panic THEN b ELSE Written(a.text \o b.text) :
      a \in first, b \in second }

RECURSIVE ThenAll(_)
ThenAll(parts) ==
    IF parts = <<>> THEN {Written("")}
    ELSE Then(Head(parts), ThenAll(Tail(parts)))

\* strings.Join(texts, sep)
RECURSIVE Join(_, _)
Join(texts, sep) ==
    IF texts = <<>> THEN {Written("")}
    ELSE IF Len(texts) = 1 THEN texts[1]
    ELSE ThenAll(<< texts[1], {Written(sep)}, Join(Tail(texts), sep) >>)

\* The text of a run of digits.
RECURSIVE DigitsText(_)
DigitsText(digits) ==
    IF digits = <<>> THEN ""
    ELSE << "0", "1", "2", "3", "4", "5", "6", "7", "8", "9" >>[Head(digits) + 1]
         \o DigitsText(Tail(digits))

\* node.String().  IntegerLiteral, Boolean and StringLiteral return the
\* literal of their token: the digits as written, and for the other two the
\* text the parser also keeps as Value.  Only the statements test their
\* expression for nil.
RECURSIVE NodeString(_)
NodeString(node) ==
    CASE node.kind = "IntegerLiteral" -> {Written(DigitsText(node.Token.Literal))}
      [] node.kind = "Boolean" -> {Written(IF node.Value THEN "true" ELSE "false")}
      [] node.kind = "StringLiteral" -> {Written(node.Value)}
      [] node.kind = "Identifier" -> {Written(node.Value)}
      [] node.kind = "PrefixExpression" ->
            ThenAll(<< {Written("(" \o node.Operator)}, NodeString(node.Right),
                       {Written(")")} >>)
      [] node.kind = "InfixExpression" ->
            ThenAll(<< NodeString(node.Left), {Written(" " \o node.Operator \o " ")},
                       NodeString(node.Right) >>)
      [] node.kind = "IfExpression" ->
            ThenAll(<< {Written("if")}, NodeString(node.Condition), {Written(" ")},
                       NodeString(BlockStatement(node.Consequence)),
                       IF node.HasAlternative
                       THEN Then({Written("else ")},
                                 NodeString(BlockStatement(node.Alternative)))
                       ELSE {Written("")} >>)
      [] node.kind = "BlockStatement" ->
            ThenAll([i \in 1 .. Len(node.Statements) |->
                        ThenAll(<< {Written("\n\t")}, NodeString(node.Statements[i]),
                                   {Written("\n")} >>)])
      [] node.kind = "FunctionLiteral" ->
            ThenAll(<< {Written("fn(")},
                       Join([i \in 1 .. Len(node.Parameters) |->
                                {Written(node.Parameters[i])}], ", "),
                       {Written(") ")}, NodeString(BlockStatement(node.Body)) >>)
      [] node.kind = "CallExpression" ->
            ThenAll(<< NodeString(node.Function), {Written("(")},
                       Join([i \in 1 .. Len(node.Arguments) |->
                                NodeString(node.Arguments[i])], ", "),
                       {Written(")")} >>)
      [] node.kind = "ArrayLiteral" ->
            ThenAll(<< {Written("[")},
                       Join([i \in 1 .. Len(node.Elements) |->
                                NodeString(node.Elements[i])], ", "),
                       {Written("]")} >>)
      [] node.kind = "IndexExpression" ->
            ThenAll(<< {Written("(")}, NodeString(node.Left), {Written("[")},
                       NodeString(node.Index), {Written("])")} >>)
      [] node.kind = "HashLiteral" ->
            UNION { ThenAll(<< {Written("{")},
                               Join([i \in 1 .. Len(node.Pairs) |->
                                        ThenAll(<< NodeString(node.Pairs[order[i]][1]),
                                                   {Written(": ")},
                                                   NodeString(node.Pairs[order[i]][2]) >>)],
                                    ", "),
                               {Written("}")} >>) :
                    order \in Orders(Len(node.Pairs)) }
      [] node.kind = "ExpressionStatement" ->
            IF node.Expression.kind # "nil" THEN NodeString(node.Expression)
            ELSE {Written("")}
      [] node.kind = "ReturnStatement" ->
            ThenAll(<< {Written("return ")},
                       IF node.ReturnValue.kind # "nil" THEN NodeString(node.ReturnValue)
                       ELSE {Written("")},
                       {Written(";")} >>)
      [] node.kind = "LetStatement" ->
            ThenAll(<< {Written("let " \o node.Name \o " = ")},
                       IF node.Value.kind # "nil" THEN NodeString(node.Value)
                       ELSE {Written("")},
                       {Written(";")} >>)
      \* a method called on a nil Expression or on a nil *LetStatement
      [] node.kind \in {"nil", "LetStatement(nil)"} -> {NilString}

\* Program.String(): the texts of the statements one after the other.
ProgramString(statements) ==
    ThenAll([i \in 1 .. Len(statements) |-> NodeString(statements[i])])

(***************************************************************************)
(* token, parser: the Pratt parser over the tokens the lexer yields.  A    *)
(* parser value holds the tokens, the place of curToken in them (peekToken *)
(* is the next one), the errors and `hang`, set once the parser is inside  *)
(* a loop it never leaves.  Behind the last token the lexer yields EOF on  *)
(* every call.  The literal of an INT token is its sequence of digits.     *)
(***************************************************************************)
Token(type, literal) == [Type |-> type, Literal |-> literal]

EOF == Token("EOF", "")

LOWEST == 1
EQUALS == 2
LESSGRATER == 3
SUM == 4
PRODUCT == 5
PREFIX == 6
CALL == 7

\* One precedence for every infix operator.
precedencesFlat(type) ==
    CASE type \in {"==", "!=", "<", ">", "+", "-", "/", "*"} -> SUM
      [] type = "(" -> CALL
      [] OTHER -> LOWEST

\* var precedences, read as peekPrecedence() and currPrecedence() read it.
precedences(type) ==
    CASE type \in {"==", "!="} -> EQUALS
      [] type \in {"<", ">"} -> LESSGRATER
      [] type \in {"+", "-"} -> SUM
      [] type \in {"/", "*"} -> PRODUCT
      [] type = "(" -> CALL
      [] OTHER -> LOWEST

\* The token types New registers a prefix and an infix parse function for.
prefixParseFns == {"IDENT", "INT", "!", "-", "TRUE", "FALSE", "(", "IF", "FUNCTION"}

infixParseFns == {"+", "-", "/", "*", "==", "!=", "<", ">", "("}

\* func New(l *lexer.Lexer) *Parser: curToken is the first token.
New(toks) == [toks |-> toks, pos |-> 1, errors |-> <<>>, hang |-> FALSE]

curToken(p) == IF p.pos <= Len(p.toks) THEN p.toks[p.pos] ELSE EOF

peekToken(p) == IF p.pos + 1 <= Len(p.toks) THEN p.toks[p.pos + 1] ELSE EOF

\* nextToken: at the end of the input both tokens are EOF and stay EOF.
nextToken(p) == IF p.pos > Len(p.toks) THEN p ELSE [p EXCEPT !.pos = p.pos + 1]

AddError(p, msg) == IF p.hang THEN p ELSE [p EXCEPT !.errors = Append(p.errors, msg)]

\* expectPeek(t): advance on the expected token, else record peekError(t).
expectPeek(p, t) ==
    IF peekToken(p).Type = t THEN [p |-> nextToken(p), ok |-> TRUE]
    ELSE [p |-> AddError(p, <<"expected next token to be", t, peekToken(p).Type>>),
          ok |-> FALSE]

\* A nil ast.Expression, and the nil *ast.LetStatement that parseStatement
\* hands back inside a non-nil ast.Statement.
NilExpression == [kind |-> "nil"]

NilLetStatement == [kind |-> "LetStatement(nil)"]

\* strconv.ParseInt(literal, 0, 64) on a run of digits: a leading 0 makes
\* the rest octal.  The literals explored stay far below 2^63.
ParseInt(digits) ==
    LET base == IF digits[1] = 0 THEN 8 ELSE 10
        v[k \in 0 .. Len(digits)] == IF k = 0 THEN 0 ELSE v[k - 1] * base + digits[k]
    IN  [ok |-> \A k \in 1 .. Len(digits) : digits[k] < base, value |-> v[Len(digits)]]

\* The element of a singleton.  The result of a nested parse is bound as
\* the element of a singleton: it is computed once, however often the
\* caller refers to it.
Only(S) == CHOOSE x \in S : TRUE

RECURSIVE parseExpression(_, _), parseExpressionLoop(_, _, _)
RECURSIVE parseBlockStatement(_), parseBlockLoop(_, _)
RECURSIVE parseParametersLoop(_, _), parseArgumentsLoop(_, _)

\* The text of a token's literal: p.curToken.Literal as a Go string.
TokenText(tok) == IF tok.Type = "INT" THEN DigitsText(tok.Literal) ELSE tok.Literal

parseIdentifier(p) == [p |-> p, node |-> Identifier(curToken(p).Literal)]

parseIntegerLiteral(p) ==
    LET r == ParseInt(curToken(p).Literal)
    IN  IF r.ok THEN [p |-> p, node |-> IntegerLiteralOf(curToken(p), r.value)]
        ELSE [p |-> AddError(p, <<"could not parse as integer", curToken(p).Literal>>),
              node |-> NilExpression]

parseBoolean(p) == [p |-> p, node |-> Boolean(curToken(p).Type = "TRUE")]

parsePrefixExpression(p) ==
    Only({[p |-> r.p, node |-> PrefixExpression(curToken(p).Literal, r.node)] :
            r \in {parseExpression(nextToken(p), PREFIX)}})

parseInfixExpression(p, left) ==
    Only({[p |-> r.p, node |-> InfixExpression(curToken(p).Literal, left, r.node)] :
            r \in {parseExpression(nextToken(p), precedences(curToken(p).Type))}})

parseGroupedExpression(p) ==
    Only({LET e == expectPeek(r.p, ")")
          IN  [p |-> e.p, node |-> IF e.ok THEN r.node ELSE NilExpression] :
            r \in {parseExpression(nextToken(p), LOWEST)}})

\* The else branch of an if expression whose consequence has been parsed.
parseAlternative(c, cons) ==
    LET e4 == expectPeek(nextToken(cons.p), "{")
    IN  IF peekToken(cons.p).Type # "ELSE"
        THEN [p |-> cons.p, node |-> IfExpression(c.node, cons.node, FALSE, <<>>)]
        ELSE IF ~e4.ok THEN [p |-> e4.p, node |-> NilExpression]
        ELSE Only({[p |-> alt.p,
                    node |-> IfExpression(c.node, cons.node, TRUE, alt.node)] :
                      alt \in {parseBlockStatement(e4.p)}})

\* The consequence and what follows it, the condition c having been parsed.
parseConsequence(c) ==
    LET e2 == expectPeek(c.p, ")")
        e3 == expectPeek(e2.p, "{")
    IN  IF ~e2.ok THEN [p |-> e2.p, node |-> NilExpression]
        ELSE IF ~e3.ok THEN [p |-> e3.p, node |-> NilExpression]
        ELSE Only({parseAlternative(c, cons) : cons \in {parseBlockStatement(e3.p)}})

parseIfExpression(p) ==
    LET e1 == expectPeek(p, "(")
    IN  IF ~e1.ok THEN [p |-> e1.p, node |-> NilExpression]
        ELSE Only({parseConsequence(c) :
                     c \in {parseExpression(nextToken(e1.p), LOWEST)}})

\* for p.peekTokenIs(token.COMMA): two tokens on, one more identifier.
\* The identifier is made of curToken whatever its type: its Value is the
\* literal of the token.
parseParametersLoop(p, identifiers) ==
    IF peekToken(p).Type = ","
    THEN LET p2 == nextToken(nextToken(p))
         IN  parseParametersLoop(p2, Append(identifiers, TokenText(curToken(p2))))
    ELSE [p |-> p, list |-> identifiers]

parseFunctionParameters(p) ==
    IF peekToken(p).Type = ")" THEN [p |-> nextToken(p), list |-> <<>>]
    ELSE Only({LET e == expectPeek(r.p, ")")
               IN  [p |-> e.p, list |-> IF e.ok THEN r.list ELSE <<>>] :
                 r \in {parseParametersLoop(nextToken(p),
                                            <<TokenText(peekToken(p))>>)}})

\* The body of a function literal whose parameters have been parsed.
parseFunctionBody(params) ==
    LET e2 == expectPeek(params.p, "{")
    IN  IF ~e2.ok THEN [p |-> e2.p, node |-> NilExpression]
        ELSE Only({[p |-> body.p, node |-> FunctionLiteral(params.list, body.node)] :
                     body \in {parseBlockStatement(e2.p)}})

parseFunctionLiteral(p) ==
    LET e1 == expectPeek(p, "(")
    IN  IF ~e1.ok THEN [p |-> e1.p, node |-> NilExpression]
        ELSE Only({parseFunctionBody(params) :
                     params \in {parseFunctionParameters(e1.p)}})

\* for p.peekTokenIs(token.COMMA): two tokens on, one more argument.
parseArgumentsLoop(p, args) ==
    IF peekToken(p).Type = ","
    THEN Only({parseArgumentsLoop(r.p, Append(args, r.node)) :
                 r \in {parseExpression(nextToken(nextToken(p)), LOWEST)}})
    ELSE [p |-> p, list |-> args]

parseCallArguments(p) ==
    IF peekToken(p).Type = ")" THEN [p |-> nextToken(p), list |-> <<>>]
    ELSE Only({LET e == expectPeek(r.p, ")")
               IN  [p |-> e.p, list |-> IF e.ok THEN r.list ELSE <<>>] :
                 r \in {Only({parseArgumentsLoop(first.p, <<first.node>>) :
                          first \in {parseExpression(nextToken(p), LOWEST)}})}})

parseCallExpression(p, function) ==
    Only({[p |-> r.p, node |-> CallExpression(function, r.list)] :
            r \in {parseCallArguments(p)}})

\* The loop of parseExpression: while the next token is no semicolon and
\* binds tighter than `precedence`, it takes leftExp as its left operand.
parseExpressionLoop(p, leftExp, precedence) ==
    IF peekToken(p).Type # ";" /\ precedence < precedences(peekToken(p).Type)
    THEN IF peekToken(p).Type \notin infixParseFns THEN [p |-> p, node |-> leftExp]
         ELSE Only({parseExpressionLoop(r.p, r.node, precedence) :
                      r \in {IF peekToken(p).Type = "("
                             THEN parseCallExpression(nextToken(p), leftExp)
                             ELSE parseInfixExpression(nextToken(p), leftExp)}})
    ELSE [p |-> p, node |-> leftExp]

\* The prefix parse function registered for the type of curToken.
prefix(p) ==
    CASE curToken(p).Type = "IDENT" -> parseIdentifier(p)
      [] curToken(p).Type = "INT" -> parseIntegerLiteral(p)
      [] curToken(p).Type \in {"!", "-"} -> parsePrefixExpression(p)
      [] curToken(p).Type \in {"TRUE", "FALSE"} -> parseBoolean(p)
      [] curToken(p).Type = "(" -> parseGroupedExpression(p)
      [] curToken(p).Type = "IF" -> parseIfExpression(p)
      [] curToken(p).Type = "FUNCTION" -> parseFunctionLiteral(p)

\* func (p *Parser) parseExpression(precedence int) ast.Expression
parseExpression(p, precedence) ==
    IF curToken(p).Type \notin prefixParseFns
    THEN [p |-> AddError(p, <<"no prefix parse function found", curToken(p).Type>>),
          node |-> NilExpression]
    ELSE Only({parseExpressionLoop(leftExp.p, leftExp.node, precedence) :
                 leftExp \in {prefix(p)}})

\* The optional semicolon behind a let or an expression statement.
SkipSemicolon(p) == IF peekToken(p).Type = ";" THEN nextToken(p) ELSE p

parseLetStatement(p) ==
    LET e1 == expectPeek(p, "IDENT")
        e2 == expectPeek(e1.p, "=")
    IN  IF ~e1.ok THEN [p |-> e1.p, node |-> NilLetStatement]
        ELSE IF ~e2.ok THEN [p |-> e2.p, node |-> NilLetStatement]
        ELSE Only({[p |-> SkipSemicolon(r.p),
                    node |-> LetStatement(curToken(e1.p).Literal, r.node)] :
                      r \in {parseExpression(nextToken(e2.p), LOWEST)}})

\* The loop `for !p.curTokenIs(token.SEMICOLON) { p.nextToken() }` of
\* parseReturnStatement ends on the next semicolon.  With none left it
\* reaches the end of the input, where nextToken changes nothing and the
\* loop goes round for ever: hang.
SkipToSemicolonFrom(p) ==
    LET semicolons == {k \in p.pos .. Len(p.toks) : p.toks[k].Type = ";"}
    IN  IF p.hang THEN p
        ELSE IF semicolons = {}
             THEN [p EXCEPT !.pos = Len(p.toks) + 1, !.hang = TRUE]
        ELSE [p EXCEPT !.pos = CHOOSE k \in semicolons : \A j \in semicolons : k <= j]

parseReturnStatement(p) ==
    Only({[p |-> SkipToSemicolonFrom(r.p), node |-> ReturnStatement(r.node)] :
            r \in {parseExpression(nextToken(p), LOWEST)}})

parseExpressionStatement(p) ==
    Only({[p |-> SkipSemicolon(r.p), node |-> ExpressionStatement(r.node)] :
            r \in {parseExpression(p, LOWEST)}})

parseStatement(p) ==
    CASE curToken(p).Type = "LET" -> parseLetStatement(p)
      [] curToken(p).Type = "RETURN" -> parseReturnStatement(p)
      [] OTHER -> parseExpressionStatement(p)

\* The loop of parseBlockStatement: a statement, then one token on, until
\* the closing brace or the end of the input.  The ast.Statement that
\* parseStatement returns always holds a pointer, so `stmt != nil` is true
\* even for the nil *ast.LetStatement and every statement is appended.
parseBlockLoop(p, statements) ==
    IF curToken(p).Type \in {"}", "EOF"} THEN [p |-> p, node |-> statements]
    ELSE Only({parseBlockLoop(nextToken(r.p), Append(statements, r.node)) :
                 r \in {parseStatement(p)}})

parseBlockStatement(p) == parseBlockLoop(nextToken(p), <<>>)

\* []byte(s) for the strings used as keys.
Bytes(s) ==
    CASE s = "" -> <<>>
      [] s = "a" -> <<97>>
      [] s = "b" -> <<98>>
      [] s = "ab" -> <<97, 98>>
      [] s = "1" -> <<49>>
      [] s = "2" -> <<50>>
      [] s = "true" -> <<116, 114, 117, 101>>

(***************************************************************************)
(* compiler: the symbol table.  A table is the chain of scopes, the root   *)
(* (global) scope first and the current scope last.                        *)
(***************************************************************************)
GlobalScope == "GLOBAL"
LocalScope == "LOCAL"
BuiltinScope == "BUILTIN"
FreeScope == "FREE"
FunctionScope == "FUNCTION"

Symbol(name, scope, index) == [Name |-> name, Scope |-> scope, Index |-> index]

NewSymbolTable == << [store |-> <<>>, numDefinitions |-> 0, FreeSymbols |-> <<>>] >>

NewEnclosedSymbolTable(tabs) ==
    Append(tabs, [store |-> <<>>, numDefinitions |-> 0, FreeSymbols |-> <<>>])

\* store[name]: the latest entry written under the name.
StoreHas(store, name) == \E k \in 1 .. Len(store) : store[k].Name = name

StoreGet(store, name) ==
    LET ks == {k \in 1 .. Len(store) : store[k].Name = name}
    IN  store[CHOOSE k \in ks : \A j \in ks : j <= k]

\* define(name): Global at the root, Local otherwise; index is the running count.
Define(tabs, name) ==
    LET lvl == Len(tabs)
        s == tabs[lvl]
        sym == Symbol(name, IF lvl = 1 THEN GlobalScope ELSE LocalScope,
                      s.numDefinitions)
    IN  [tabs |-> [tabs EXCEPT ![lvl] =
                     [s EXCEPT !.store = Append(s.store, sym),
                               !.numDefinitions = s.numDefinitions + 1]],
         sym |-> sym]

\* define_builtin(index, name): a Builtin symbol; the running count of the
\* scope is left alone.
DefineBuiltin(tabs, index, name) ==
    LET lvl == Len(tabs)
        s == tabs[lvl]
    IN  [tabs EXCEPT ![lvl] =
           [s EXCEPT !.store = Append(s.store, Symbol(name, BuiltinScope, index))]]

\* The builtins in the order of their indices (0 len .. 5 push).
BuiltinNames == << "len", "puts", "first", "last", "rest", "push" >>

\* The symbol table of a new compiler: the builtins registered by index.
RECURSIVE DefineBuiltins(_, _)
DefineBuiltins(tabs, index) ==
    IF index = Len(BuiltinNames) THEN tabs
    ELSE DefineBuiltins(DefineBuiltin(tabs, index, BuiltinNames[index + 1]), index + 1)

BuiltinSymbolTable == DefineBuiltins(NewSymbolTable, 0)

\* define_function(name): binds the function's own name, index 0.
DefineFunctionName(tabs, name) ==
    LET lvl == Len(tabs)
        s == tabs[lvl]
    IN  [tabs EXCEPT ![lvl] =
           [s EXCEPT !.store = Append(s.store, Symbol(name, FunctionScope, 0))]]

\* define_free(original): appended to free_symbols, aliased as a Free symbol.
DefineFree(tabs, lvl, original) ==
    LET s == tabs[lvl]
        sym == Symbol(original.Name, FreeScope, Len(s.FreeSymbols))
    IN  [tabs |-> [tabs EXCEPT ![lvl] =
                     [s EXCEPT !.FreeSymbols = Append(s.FreeSymbols, original),
                               !.store = Append(s.store, sym)]],
         sym |-> sym]

\* resolve(name), looking from scope lvl outwards.
RECURSIVE ResolveAt(_, _, _)
ResolveAt(tabs, lvl, name) ==
    IF StoreHas(tabs[lvl].store, name) THEN
        [tabs |-> tabs, ok |-> TRUE, sym |-> StoreGet(tabs[lvl].store, name)]
    ELSE IF lvl = 1 THEN
        [tabs |-> tabs, ok |-> FALSE, sym |-> Symbol(name, GlobalScope, 0)]
    ELSE
        LET r == ResolveAt(tabs, lvl - 1, name)
        IN  IF ~r.ok THEN r
            ELSE IF r.sym.Scope \in {GlobalScope, BuiltinScope} THEN r
            ELSE LET f == DefineFree(r.tabs, lvl, r.sym)
                 IN  [tabs |-> f.tabs, ok |-> TRUE, sym |-> f.sym]

Resolve(tabs, name) == ResolveAt(tabs, Len(tabs), name)

(***************************************************************************)
(* compiler: a compiler value holds the constant pool, the symbol table,   *)
(* the stack of compilation scopes (instructions plus the last two emitted *)
(* instructions) and the first error met ("" while there is none).         *)
(***************************************************************************)
NoInstruction == [Opcode |-> -1, Position |-> 0]

NewCompilationScope ==
    [instructions |-> <<>>, lastInstruction |-> NoInstruction,
     previousInstruction |-> NoInstruction]

\* A compiler over the symbol table tabs: an empty constant pool and the
\* main compilation scope.
NewCompiler(tabs) ==
    [constants |-> <<>>, tabs |-> tabs, scopes |-> <<NewCompilationScope>>,
     err |-> ""]

CurrentScope(c) == c.scopes[Len(c.scopes)]

CurrentInstructions(c) == CurrentScope(c).instructions

\* emit(op, operands...): append the instruction, remember it as the last one.
Emit(c, op, operands) ==
    LET sc == CurrentScope(c)
        pos == Len(sc.instructions)
    IN  [c EXCEPT !.scopes[Len(c.scopes)] =
           [instructions |-> sc.instructions \o Make(op, operands),
            lastInstruction |-> [Opcode |-> op, Position |-> pos],
            previousInstruction |-> sc.lastInstruction]]

\* addConstant(obj): append to the pool.
AddConstant(c, obj) == [c EXCEPT !.constants = Append(c.constants, obj)]

LastInstructionIs(c, op) ==
    /\ Len(CurrentInstructions(c)) > 0
    /\ CurrentScope(c).lastInstruction.Opcode = op

\* removeLastPop: cut the trailing OpPop so the value stays on the stack.
RemoveLastPop(c) ==
    LET sc == CurrentScope(c)
    IN  [c EXCEPT !.scopes[Len(c.scopes)] =
           [instructions |-> SubSeq(sc.instructions, 1, sc.lastInstruction.Position),
            lastInstruction |-> sc.previousInstruction,
            previousInstruction |-> sc.previousInstruction]]

\* replaceInstruction(pos, newInstruction): overwrite the bytes at pos.
ReplaceInstruction(c, pos, new) ==
    LET sc == CurrentScope(c)
    IN  [c EXCEPT !.scopes[Len(c.scopes)].instructions =
           [k \in 1 .. Len(sc.instructions) |->
              IF k > pos /\ k <= pos + Len(new) THEN new[k - pos]
              ELSE sc.instructions[k]]]

\* changeOperand(opPos, operand): back-patch a jump target.
ChangeOperand(c, opPos, operand) ==
    ReplaceInstruction(c, opPos,
                       Make(CurrentInstructions(c)[opPos + 1], <<operand>>))

\* replaceLastPopWithReturn: the body's last value becomes the return value.
ReplaceLastPopWithReturn(c) ==
    LET sc == CurrentScope(c)
        r == ReplaceInstruction(c, sc.lastInstruction.Position,
                                Make(OpReturnValue, <<>>))
    IN  [r EXCEPT !.scopes[Len(c.scopes)].lastInstruction.Opcode = OpReturnValue]

EnterScope(c) ==
    [c EXCEPT !.scopes = Append(c.scopes, NewCompilationScope),
              !.tabs = NewEnclosedSymbolTable(c.tabs)]

\* leaveScope: drop the innermost compilation scope and symbol scope.
LeaveScope(c) ==
    [c EXCEPT !.scopes = SubSeq(c.scopes, 1, Len(c.scopes) - 1),
              !.tabs = SubSeq(c.tabs, 1, Len(c.tabs) - 1)]

\* loadSymbol: the Get instruction of a resolved symbol.
LoadSymbol(c, sym) ==
    CASE sym.Scope = GlobalScope -> Emit(c, OpGetGlobal, <<sym.Index>>)
      [] sym.Scope = LocalScope -> Emit(c, OpGetLocal, <<sym.Index>>)
      [] sym.Scope = FreeScope -> Emit(c, OpGetFree, <<sym.Index>>)
      [] sym.Scope = BuiltinScope -> Emit(c, OpGetBuiltin, <<sym.Index>>)
      [] sym.Scope = FunctionScope -> Emit(c, OpCurrentClosure, <<>>)

RECURSIVE LoadSymbols(_, _)
LoadSymbols(c, syms) ==
    IF syms = <<>> THEN c
    ELSE LoadSymbols(LoadSymbol(c, Head(syms)), Tail(syms))

RECURSIVE DefineAll(_, _)
DefineAll(tabs, names) ==
    IF names = <<>> THEN tabs
    ELSE DefineAll(Define(tabs, Head(names)).tabs, Tail(names))

InfixOpcode(operator) ==
    CASE operator = "+" -> OpAdd
      [] operator = "-" -> OpSub
      [] operator = "*" -> OpMul
      [] operator = "/" -> OpDiv
      [] operator = ">" -> OpGreaterThan
      [] operator = "<" -> OpGreaterThan
      [] operator = "==" -> OpEqual
      [] operator = "!=" -> OpNotEqual
      [] OTHER -> -1

\* The operand compiled first: the right one for <, the left one otherwise.
InfixFirst(node) == IF node.Operator = "<" THEN node.Right ELSE node.Left

InfixSecond(node) == IF node.Operator = "<" THEN node.Left ELSE node.Right

\* After the consequence: keep its value (drop a trailing OpPop), emit the
\* OpJump placeholder and point OpJumpNotTruthy just behind it.
IfAfterConsequence(c, jumpNotTruthyPos) ==
    LET c1 == IF LastInstructionIs(c, OpPop) THEN RemoveLastPop(c) ELSE c
        c2 == Emit(c1, OpJump, <<9999>>)
    IN  ChangeOperand(c2, jumpNotTruthyPos, Len(CurrentInstructions(c2)))

\* After the alternative (or the OpNull standing for it): patch the OpJump.
IfAfterAlternative(c, jumpPos) ==
    LET c1 == IF LastInstructionIs(c, OpPop) THEN RemoveLastPop(c) ELSE c
    IN  ChangeOperand(c1, jumpPos, Len(CurrentInstructions(c1)))

\* The end of a function body: its value, or Null, is returned.
FunctionEpilogue(c) ==
    IF LastInstructionIs(c, OpPop) THEN ReplaceLastPopWithReturn(c)
    ELSE IF ~LastInstructionIs(c, OpReturnValue) THEN Emit(c, OpReturn, <<>>)
    ELSE c

\* The named-function-literal hook: a function literal on the right of a
\* let is given the bound name before it is compiled.
NamedValue(let) ==
    IF let.Value.kind = "FunctionLiteral"
    THEN [kind |-> "FunctionLiteral", Parameters |-> let.Value.Parameters,
          Body |-> let.Value.Body, Name |-> let.Name]
    ELSE let.Value

\* a < b for two byte strings, as Go orders strings.
BytesLess(a, b) ==
    \E k \in 1 .. Len(b) :
        /\ k <= Len(a) + 1
        /\ \A j \in 1 .. k - 1 : a[j] = b[j]
        /\ (k = Len(a) + 1 \/ a[k] < b[k])

\* The string() of a key of a hash literal.  The keys explored print one
\* text each, and the keys of one literal print different texts.
KeyText(key) == Only(NodeString(key)).text

\* The pairs of a hash literal sorted by the string() of their keys.
SortedPairs(pairs) ==
    LET n == Len(pairs)
        order == CHOOSE o \in Orders(n) :
                    \A i \in 1 .. n - 1 :
                        ~BytesLess(Bytes(KeyText(pairs[o[i + 1]][1])),
                                   Bytes(KeyText(pairs[o[i]][1])))
    IN  [i \in 1 .. n |-> pairs[order[i]]]

\* key, value, key, value, ... of the pairs in their order.
KeysAndValues(pairs) ==
    [i \in 1 .. 2 * Len(pairs) |-> pairs[(i + 1) \div 2][IF i % 2 = 1 THEN 1 ELSE 2]]

RECURSIVE Compile(_, _), CompileAll(_, _)

\* Compile(node) for every statement and expression node.
Compile(node, c) ==
    IF c.err # "" THEN c
    ELSE CASE node.kind = "ExpressionStatement" ->
            LET c1 == Compile(node.Expression, c)
            IN  IF c1.err # "" THEN c1 ELSE Emit(c1, OpPop, <<>>)
      [] node.kind = "LetStatement" ->
            LET d == Define(c.tabs, node.Name)
                c1 == Compile(NamedValue(node), [c EXCEPT !.tabs = d.tabs])
            IN  IF c1.err # "" THEN c1
                ELSE IF d.sym.Scope = GlobalScope
                     THEN Emit(c1, OpSetGlobal, <<d.sym.Index>>)
                     ELSE Emit(c1, OpSetLocal, <<d.sym.Index>>)
      [] node.kind = "ReturnStatement" ->
            LET c1 == Compile(node.ReturnValue, c)
            IN  IF c1.err # "" THEN c1 ELSE Emit(c1, OpReturnValue, <<>>)
      [] node.kind = "IntegerLiteral" ->
            Emit(AddConstant(c, Integer(node.Value)), OpConstant,
                 <<Len(c.constants)>>)
      [] node.kind = "Boolean" ->
            Emit(c, IF node.Value THEN OpTrue ELSE OpFalse, <<>>)
      [] node.kind = "StringLiteral" ->
            Emit(AddConstant(c, String(node.Value, Len(c.constants))),
                 OpConstant, <<Len(c.constants)>>)
      [] node.kind = "PrefixExpression" ->
            LET c1 == Compile(node.Right, c)
            IN  IF c1.err # "" THEN c1
                ELSE IF node.Operator = "!" THEN Emit(c1, OpBang, <<>>)
                ELSE IF node.Operator = "-" THEN Emit(c1, OpMinus, <<>>)
                ELSE [c1 EXCEPT !.err = "unknown operator"]
      [] node.kind = "InfixExpression" ->
            LET c1 == Compile(InfixFirst(node), c)
                c2 == Compile(InfixSecond(node), c1)
            IN  IF c2.err # "" THEN c2
                ELSE IF InfixOpcode(node.Operator) = -1
                     THEN [c2 EXCEPT !.err = "unknown operator"]
                     ELSE Emit(c2, InfixOpcode(node.Operator), <<>>)
      [] node.kind = "IfExpression" ->
            LET c1 == Compile(node.Condition, c)
                jumpNotTruthyPos == Len(CurrentInstructions(c1))
                c2 == Emit(c1, OpJumpNotTruthy, <<9999>>)
                c3 == CompileAll(node.Consequence, c2)
                jumpPos == Len(CurrentInstructions(c3))
                    - (IF LastInstructionIs(c3, OpPop) THEN 1 ELSE 0)
                c4 == IfAfterConsequence(c3, jumpNotTruthyPos)
                c5 == IF node.HasAlternative
                      THEN CompileAll(node.Alternative, c4)
                      ELSE Emit(c4, OpNull, <<>>)
            IN  IF c1.err # "" THEN c1
                ELSE IF c3.err # "" THEN c3
                ELSE IF c5.err # "" THEN c5
                ELSE IfAfterAlternative(c5, jumpPos)
      [] node.kind = "Identifier" ->
            LET r == Resolve(c.tabs, node.Value)
            IN  IF ~r.ok THEN [c EXCEPT !.err = "undefined variable"]
                ELSE LoadSymbol([c EXCEPT !.tabs = r.tabs], r.sym)
      [] node.kind = "FunctionLiteral" ->
            LET c1 == EnterScope(c)
                c2 == IF "Name" \in DOMAIN node
                      THEN [c1 EXCEPT !.tabs = DefineFunctionName(c1.tabs, node.Name)]
                      ELSE c1
                c3 == [c2 EXCEPT !.tabs = DefineAll(c2.tabs, node.Parameters)]
                c4 == CompileAll(node.Body, c3)
                c5 == FunctionEpilogue(c4)
                inner == c5.tabs[Len(c5.tabs)]
                body == CurrentInstructions(c5)
                c6 == LoadSymbols(LeaveScope(c5), inner.FreeSymbols)
                fn == CompiledFunction(body, inner.numDefinitions,
                                       Len(node.Parameters), Len(c6.constants))
            IN  IF c4.err # "" THEN c4
                ELSE Emit(AddConstant(c6, fn), OpClosure,
                          <<Len(c6.constants), Len(inner.FreeSymbols)>>)
      [] node.kind = "CallExpression" ->
            LET c1 == Compile(node.Function, c)
                c2 == CompileAll(node.Arguments, c1)
            IN  IF c2.err # "" THEN c2
                ELSE Emit(c2, OpCall, <<Len(node.Arguments)>>)
      [] node.kind = "ArrayLiteral" ->
            LET c1 == CompileAll(node.Elements, c)
            IN  IF c1.err # "" THEN c1
                ELSE Emit(c1, OpArray, <<Len(node.Elements)>>)
      [] node.kind = "HashLiteral" ->
            LET c1 == CompileAll(KeysAndValues(SortedPairs(node.Pairs)), c)
            IN  IF c1.err # "" THEN c1
                ELSE Emit(c1, OpHash, <<2 * Len(node.Pairs)>>)
      [] node.kind = "IndexExpression" ->
            LET c1 == Compile(node.Left, c)
                c2 == Compile(node.Index, c1)
            IN  IF c2.err # "" THEN c2 ELSE Emit(c2, OpIndex, <<>>)
      [] node.kind = "BlockStatement" -> CompileAll(node.Statements, c)

\* A block, a program or an argument list: each node in order.
CompileAll(nodes, c) ==
    IF nodes = <<>> \/ c.err # "" THEN c
    ELSE CompileAll(Tail(nodes), Compile(Head(nodes), c))

\* Bytecode(): the main instructions and the constant pool.
Bytecode(c) == [Instructions |-> CurrentInstructions(c), Constants |-> c.constants]

(***************************************************************************)
(* vm: the machine.  `stack` holds the slots written so far (slot i is     *)
(* stack[i + 1]); every slot beyond them still holds nil.  `globals` maps  *)
(* the indices stored so far; every other entry of the store holds nil.    *)
(***************************************************************************)
StackSize == 2048
GlobalsSize == 65536

VARIABLES
    program,    \* the statements of the line being run
    symbols,    \* the symbol table of the compiler of the line
    lines,      \* lines entered so far
    constants,  \* vm.constants
    stack,      \* vm.stack
    sp,         \* vm.sp: the next free slot
    globals,    \* vm.globals: the store of the machine made last
    frames,     \* vm.instructions and the loop's ip, held as the one frame
                \* of the machine: [cl, ip, basePointer]
    status,     \* idle | compile_error | running | done | error | panic
    err,        \* the error Run() returned, or the panic's message
    stored,     \* history: index -> the value OpSetGlobal stored there last
    calls,      \* history, one entry per frame: the locals stored in it
    turn,       \* read: the REPL is at the top of its loop | repl: it has
                \* made the machine of a line and has not yet printed |
                \* caller: the machine was made of given bytecode
    parser,     \* the parser at work: where it is (pc), the parser value p
                \* and the statements ParseProgram has collected
    applied     \* the library function applied last, with its arguments
                \* and its result

vars == << program, symbols, lines, constants, stack, sp, globals, frames,
           status, err, stored, calls, turn, parser, applied >>

StackAt(st, i) == IF i >= 0 /\ i < Len(st) THEN st[i + 1] ELSE Nil

\* st with slot i set to v; the slots between stay nil.
StackPut(st, i, v) ==
    [k \in 1 .. (IF i + 1 > Len(st) THEN i + 1 ELSE Len(st)) |->
        IF k = i + 1 THEN v ELSE IF k <= Len(st) THEN st[k] ELSE Nil]

GlobalAt(g, i) == IF i \in DOMAIN g THEN g[i] ELSE Nil

GlobalPut(g, i, v) == [k \in DOMAIN g \cup {i} |-> IF k = i THEN v ELSE g[k]]

\* The operand stack while one instruction executes: fault is "" until the
\* instruction fails with an error ("error") or a Go run-time panic ("panic").
Machine(st, p) == [stack |-> st, sp |-> p, fault |-> "", msg |-> ""]

Fail(m, fault, msg) == [m EXCEPT !.fault = fault, !.msg = msg]

\* func (vm *VM) push(o object.Object) error
push(m, o) ==
    IF m.fault # "" THEN m
    ELSE IF m.sp >= StackSize THEN Fail(m, "error", "stack overflow")
    ELSE IF m.sp < 0 THEN Fail(m, "panic", "index out of range")
    ELSE [m EXCEPT !.stack = StackPut(m.stack, m.sp, o), !.sp = m.sp + 1]

\* The value pop() returns: stack[sp-1].
top(m) == StackAt(m.stack, m.sp - 1)

\* pop() without its vm.sp--.
popWithoutDecrement(m) ==
    IF m.fault # "" THEN m
    ELSE IF m.sp - 1 < 0 \/ m.sp - 1 >= StackSize
         THEN Fail(m, "panic", "index out of range")
    ELSE m

\* func (vm *VM) pop() object.Object: the slot keeps the popped value.
pop(m) ==
    IF m.fault # "" THEN m
    ELSE IF m.sp - 1 < 0 \/ m.sp - 1 >= StackSize
         THEN Fail(m, "panic", "index out of range")
    ELSE [m EXCEPT !.sp = m.sp - 1]

\* func (vm *VM) executeBinaryIntegerOperation(op, left, right) error
executeBinaryIntegerOperation(op, left, right, m) ==
    CASE op = OpAdd -> push(m, Integer(left.value + right.value))
      [] op = OpSub -> push(m, Integer(left.value - right.value))
      [] op = OpMul -> push(m, Integer(left.value * right.value))
      [] op = OpDiv ->
            IF right.value = 0 THEN Fail(m, "panic", "integer divide by zero")
            ELSE push(m, Integer(GoDiv(left.value, right.value)))
      [] OTHER -> Fail(m, "error", "unknown operator")

\* executeBinaryOperation taking the first popped operand as the left one.
executeBinaryOperationLeftFirst(op, m) ==
    LET left == top(m)
        m1 == pop(m)
        right == top(m1)
        m2 == pop(m1)
    IN  IF m2.fault # "" THEN m2
        ELSE IF left.type = NIL \/ right.type = NIL
             THEN Fail(m2, "panic", "nil pointer dereference")
        ELSE IF left.type = INTEGER_OBJ /\ right.type = INTEGER_OBJ
             THEN executeBinaryIntegerOperation(op, left, right, m2)
        ELSE Fail(m2, "error", "unsupported types for binary operation")

\* func (vm *VM) executeBinaryOperation(op code.Opcode) error
executeBinaryOperation(op, m) ==
    LET right == top(m)
        m1 == pop(m)
        left == top(m1)
        m2 == pop(m1)
    IN  IF m2.fault # "" THEN m2
        ELSE IF left.type = NIL \/ right.type = NIL
             THEN Fail(m2, "panic", "nil pointer dereference")
        ELSE IF left.type = INTEGER_OBJ /\ right.type = INTEGER_OBJ
             THEN executeBinaryIntegerOperation(op, left, right, m2)
        ELSE Fail(m2, "error", "unsupported types for binary operation")

\* func (vm *VM) executeIntegerComparison(op, left, right) error: the two
\* type assertions panic on an operand that is not an *object.Integer.
executeIntegerComparison(op, left, right, m) ==
    IF left.type # INTEGER_OBJ \/ right.type # INTEGER_OBJ
    THEN Fail(m, "panic", "interface conversion")
    ELSE CASE op = OpEqual ->
                push(m, nativeBoolToBooleanObject(left.value = right.value))
           [] op = OpNotEqual ->
                push(m, nativeBoolToBooleanObject(left.value # right.value))
           [] op = OpGreaterThan ->
                push(m, nativeBoolToBooleanObject(left.value > right.value))
           [] OTHER -> Fail(m, "error", "unknown operator")

\* right == left on two object.Object values: the same pointer.  True,
\* False and Null are the singletons; Strings, CompiledFunctions and
\* Closures carry the address of their allocation, so two of them with the
\* same content and different addresses are not the same object.
SameObject(left, right) ==
    /\ left.type = right.type
    /\ IF left.type \in {STRING_OBJ, COMPILED_FUNCTION_OBJECT, CLOSURE_OBJ}
       THEN left.addr = right.addr /\ left = right
       ELSE left = right

\* func (vm *VM) executeComparison(op code.Opcode) error
executeComparison(op, m) ==
    LET right == top(m)
        m1 == pop(m)
        left == top(m1)
        m2 == pop(m1)
    IN  IF m2.fault # "" THEN m2
        \* left.Type() == INTEGER_OBJ || right.Type() == INTEGER_OBJ: Type()
        \* on a nil operand panics, and right.Type() is called only when
        \* left is no Integer.
        ELSE IF left.type = NIL
             THEN Fail(m2, "panic", "nil pointer dereference")
        ELSE IF left.type = INTEGER_OBJ
             THEN executeIntegerComparison(op, left, right, m2)
        ELSE IF right.type = NIL
             THEN Fail(m2, "panic", "nil pointer dereference")
        ELSE IF right.type = INTEGER_OBJ
             THEN executeIntegerComparison(op, left, right, m2)
        ELSE CASE op = OpEqual ->
                    push(m2, nativeBoolToBooleanObject(SameObject(left, right)))
               [] op = OpNotEqual ->
                    push(m2, nativeBoolToBooleanObject(~SameObject(left, right)))
               [] OTHER -> Fail(m2, "error", "unknown operator")

\* executeBangOperator without its case for Null.
executeBangOperatorNullFalse(m) ==
    LET operand == top(m)
        m1 == pop(m)
    IN  CASE SameObject(operand, True) -> push(m1, False)
          [] SameObject(operand, False) -> push(m1, True)
          [] OTHER -> push(m1, False)

\* func (vm *VM) executeBangOperator() error
executeBangOperator(m) ==
    LET operand == top(m)
        m1 == pop(m)
    IN  CASE SameObject(operand, True) -> push(m1, False)
          [] SameObject(operand, False) -> push(m1, True)
          [] SameObject(operand, Null) -> push(m1, True)
          [] OTHER -> push(m1, False)

\* func (vm *VM) executeMinusOperator() error
executeMinusOperator(m) ==
    LET operand == top(m)
        m1 == pop(m)
    IN  IF m1.fault # "" THEN m1
        ELSE IF operand.type = NIL
             THEN Fail(m1, "panic", "nil pointer dereference")
        ELSE IF operand.type # INTEGER_OBJ
             THEN Fail(m1, "error", "unsupported type for negation")
        ELSE push(m1, Integer(-operand.value))

(***************************************************************************)
(* vm: frames and the fetch-decode-execute loop                            *)
(***************************************************************************)
\* func NewFrame(cl *object.Closure, basePointer int) *Frame
NewFrame(cl, basePointer) == [cl |-> cl, ip |-> -1, basePointer |-> basePointer]

\* func (f *Frame) Instructions() code.Instructions
Instructions(f) == f.cl.Fn.Instructions

CurrentFrame == frames[Len(frames)]

Ins == Instructions(CurrentFrame)

\* The loop's condition and its fetch: ip is pre-incremented onto the opcode.
Running == status = "running" /\ frames # <<>>

CanFetch == Running /\ CurrentFrame.ip < Len(Ins) - 1

OpAddr == CurrentFrame.ip + 1

CurOp == Ins[OpAddr + 1]

Fetching(ops) == CanFetch /\ CurOp \in ops

\* frames with the current frame's ip set.
WithIp(ip) == [frames EXCEPT ![Len(frames)].ip = ip]

\* The end of one instruction: the operand stack is written back, and a
\* failure ends the run (an error returned by Run(), or a panic).
Finish(m, fr) ==
    /\ stack' = m.stack
    /\ sp' = m.sp
    /\ frames' = fr
    /\ status' = IF m.fault = "" THEN "running" ELSE m.fault
    /\ err' = m.msg

M == Machine(stack, sp)

\* func New(bytecode *compiler.Bytecode) *VM: the instructions and the
\* constants of the bytecode, an empty stack, sp = 0 and a store of
\* GlobalsSize entries that all hold nil.
NewVM(bytecode) ==
    [constants |-> bytecode.Constants,
     stack |-> <<>>,
     sp |-> 0,
     globals |-> <<>>,
     frames |-> << NewFrame(Closure(CompiledFunction(bytecode.Instructions,
                                                     0, 0, -1),
                                    <<>>, 0), 0) >>]

\* New(bytecode) alone: the store s of the caller is dropped.
NewWithFreshGlobals(bytecode, s) == NewVM(bytecode)

\* func NewWithGlobalsStore(bytecode *compiler.Bytecode, s []object.Object)
\* *VM: vm := New(bytecode); vm.globals = s
NewWithGlobalsStore(bytecode, s) == [NewVM(bytecode) EXCEPT !.globals = s]

NoCall == [below |-> <<>>, locals |-> {}]

(***************************************************************************)
(* Run(): one action per case of the dispatch                              *)
(***************************************************************************)
Operand16 == ReadUint16(Ins, OpAddr + 1)

Operand8 == ReadUint8(Ins, OpAddr + 1)

\* code.ReadUint16(vm.instructions[ip+1:]) on instructions that end before
\* the second operand byte: the read panics.
Decoded16(m) ==
    IF OpAddr + 2 > Len(Ins) - 1 THEN Fail(m, "panic", "index out of range")
    ELSE m

Untouched == UNCHANGED << program, symbols, lines, constants, turn, parser, applied >>

\* case code.OpConstant
ExecOpConstant ==
    /\ Fetching({OpConstant})
    /\ LET constIndex == Operand16
       IN  Finish(IF Decoded16(M).fault # "" THEN Decoded16(M)
                  ELSE IF constIndex < Len(constants)
                  THEN push(M, constants[constIndex + 1])
                  ELSE Fail(M, "panic", "index out of range"),
                  WithIp(OpAddr + 2))
    /\ Untouched /\ UNCHANGED << globals, stored, calls >>

\* case code.OpAdd, code.OpSub, code.OpMul, code.OpDiv
ExecBinaryOperation ==
    /\ Fetching({OpAdd, OpSub, OpMul, OpDiv})
    /\ Finish(executeBinaryOperation(CurOp, M), WithIp(OpAddr))
    /\ Untouched /\ UNCHANGED << globals, stored, calls >>

\* case code.OpPop
ExecOpPop ==
    /\ Fetching({OpPop})
    /\ Finish(pop(M), WithIp(OpAddr))
    /\ Untouched /\ UNCHANGED << globals, stored, calls >>

\* case code.OpTrue
ExecOpTrue ==
    /\ Fetching({OpTrue})
    /\ Finish(push(M, True), WithIp(OpAddr))
    /\ Untouched /\ UNCHANGED << globals, stored, calls >>

\* case code.OpFalse
ExecOpFalse ==
    /\ Fetching({OpFalse})
    /\ Finish(push(M, False), WithIp(OpAddr))
    /\ Untouched /\ UNCHANGED << globals, stored, calls >>

\* case code.OpEqual, code.OpNotEqual, code.OpGreaterThan
ExecComparison ==
    /\ Fetching({OpEqual, OpNotEqual, OpGreaterThan})
    /\ Finish(executeComparison(CurOp, M), WithIp(OpAddr))
    /\ Untouched /\ UNCHANGED << globals, stored, calls >>

\* case code.OpBang
ExecOpBang ==
    /\ Fetching({OpBang})
    /\ Finish(executeBangOperator(M), WithIp(OpAddr))
    /\ Untouched /\ UNCHANGED << globals, stored, calls >>

\* case code.OpMinus
ExecOpMinus ==
    /\ Fetching({OpMinus})
    /\ Finish(executeMinusOperator(M), WithIp(OpAddr))
    /\ Untouched /\ UNCHANGED << globals, stored, calls >>

\* case code.OpJump: ip = pos - 1, the loop's increment lands on pos.
ExecOpJump ==
    /\ Fetching({OpJump})
    /\ Finish(Decoded16(M),
              WithIp(IF Decoded16(M).fault # "" THEN OpAddr ELSE Operand16 - 1))
    /\ Untouched /\ UNCHANGED << globals, stored, calls >>

\* Where OpJumpNotTruthy leaves ip: behind its operand, or on the target.
JumpNotTruthyIp(condition, pos, opAddr) ==
    IF ~isTruthy(condition) THEN pos - 1 ELSE opAddr + 2

\* case code.OpJumpNotTruthy
ExecOpJumpNotTruthy ==
    /\ Fetching({OpJumpNotTruthy})
    /\ Finish(pop(Decoded16(M)),
              WithIp(IF Decoded16(M).fault # "" THEN OpAddr
                     ELSE JumpNotTruthyIp(top(M), Operand16, OpAddr)))
    /\ Untouched /\ UNCHANGED << globals, stored, calls >>

\* case code.OpNull
ExecOpNull ==
    /\ Fetching({OpNull})
    /\ Finish(push(M, Null), WithIp(OpAddr))
    /\ Untouched /\ UNCHANGED << globals, stored, calls >>

\* case code.OpSetGlobal: vm.globals[globalIndex] = vm.pop()
ExecOpSetGlobal ==
    /\ Fetching({OpSetGlobal})
    /\ LET globalIndex == Operand16
           m == pop(Decoded16(M))
       IN  /\ Finish(m, WithIp(OpAddr + 2))
           /\ globals' = IF m.fault = "" THEN GlobalPut(globals, globalIndex, top(M))
                         ELSE globals
           /\ stored' = IF m.fault = "" THEN GlobalPut(stored, globalIndex, top(M))
                        ELSE stored
    /\ Untouched /\ UNCHANGED calls

\* case code.OpGetGlobal: vm.push(vm.globals[globalIndex])
ExecOpGetGlobal ==
    /\ Fetching({OpGetGlobal})
    /\ Finish(IF Decoded16(M).fault # "" THEN Decoded16(M)
              ELSE push(M, GlobalAt(globals, Operand16)),
              WithIp(OpAddr + 2))
    /\ Untouched /\ UNCHANGED << globals, stored, calls >>

\* The opcodes the switch of Run() has a case for: OpConstant .. OpSetGlobal.
HandledOpcodes ==
    {OpConstant, OpAdd, OpSub, OpMul, OpDiv, OpPop, OpTrue, OpFalse, OpEqual,
     OpNotEqual, OpGreaterThan, OpMinus, OpBang, OpJumpNotTruthy, OpJump,
     OpNull, OpGetGlobal, OpSetGlobal}

\* The switch has no default case: on any other byte (OpGetLocal .. OpReturn
\* and every byte code.go does not define) nothing executes and the loop's
\* ip++ moves on to the byte behind it.
ExecNoCase ==
    /\ CanFetch /\ CurOp \notin HandledOpcodes
    /\ Finish(M, WithIp(OpAddr))
    /\ Untouched /\ UNCHANGED << globals, stored, calls >>

\* The loop's condition fails: Run() returns nil.
RunReturns ==
    /\ Running /\ ~CanFetch
    /\ status' = "done"
    /\ UNCHANGED << program, symbols, lines, constants, stack, sp, globals,
                    frames, err, stored, calls, turn, parser, applied >>

\* What an index expression outside the array yields: a run-time panic.
IndexOutOfRange == [type |-> "panic", value |-> 0]

\* The top of the stack, stack[sp-1], in place of the slot just above it.
StackTop == StackAt(stack, sp - 1)

\* func (vm *VM) LastPoppedStackElem() object.Object: vm.stack[vm.sp], which
\* panics when sp is not an index of the StackSize slots.
LastPoppedStackElem ==
    IF sp < 0 \/ sp >= StackSize THEN IndexOutOfRange ELSE StackAt(stack, sp)

(***************************************************************************)
(* The programs explored.  E, Id, Lit abbreviate the node constructors.    *)
(***************************************************************************)
MaxInt == 2
MaxLines == 2

E(e) == ExpressionStatement(e)
Id(name) == Identifier(name)
Lit(n) == IntegerLiteral(n)
Fn(params, body) == FunctionLiteral(params, body)
Call(f, args) == CallExpression(f, args)
Infix(op, l, r) == InfixExpression(op, l, r)
If(c, cons) == IfExpression(c, cons, FALSE, <<>>)
IfElse(c, cons, alt) == IfExpression(c, cons, TRUE, alt)

IntLits == {Lit(n) : n \in 0 .. MaxInt}
NegLits == {PrefixExpression("-", e) : e \in IntLits}
BoolLits == {Boolean(TRUE), Boolean(FALSE)}
IntOperands == IntLits \cup NegLits
Operands == IntOperands \cup BoolLits
InfixOperators == {"+", "-", "*", "/", ">", "<", "==", "!="}
PrefixOperators == {"!", "-"}

\* a op b, over integer and boolean operands
InfixPrograms ==
    {<<E(Infix(op, l, r))>> : op \in InfixOperators, l \in Operands, r \in Operands}

\* !a, -a, !!a, !-a, ...
PrefixPrograms ==
    {<<E(PrefixExpression(o1, PrefixExpression(o2, e)))>> :
        o1 \in PrefixOperators, o2 \in PrefixOperators, e \in Operands}
    \cup {<<E(PrefixExpression(o1, If(Boolean(FALSE), <<E(Lit(1))>>)))>> :
            o1 \in PrefixOperators}

\* if (c) { ... } [else { ... }] [; 3333;]
Conditions ==
    BoolLits \cup {Lit(1), Infix(">", Lit(1), Lit(2)), Infix("<", Lit(1), Lit(2)),
                   If(Boolean(FALSE), <<E(Lit(10))>>),
                   PrefixExpression("!", Lit(0))}

Blocks ==
    { <<E(Lit(10))>>,
      <<E(Lit(1)), E(Lit(2))>>,
      <<>>,
      <<LetStatement("a", Lit(1))>>,
      <<E(If(Boolean(TRUE), <<E(Lit(10))>>))>>,
      <<E(If(Boolean(FALSE), <<E(Lit(10))>>))>> }

IfPrograms ==
    {<<E(If(c, cons))>> \o rest :
        c \in Conditions, cons \in Blocks, rest \in {<<>>, <<E(Lit(3333))>>}}
    \cup {<<E(IfElse(c, cons, alt))>> \o rest :
            c \in Conditions, cons \in Blocks, alt \in Blocks,
            rest \in {<<>>, <<E(Lit(3333))>>}}

\* let statements binding and reading globals
LetPrograms ==
    {<<LetStatement("a", x), LetStatement("b", y), E(Infix(op, Id("a"), Id("b")))>> :
        x \in IntLits, y \in IntLits, op \in {"+", "-", "<"}}
    \cup {<<LetStatement("a", x), LetStatement("b", Infix("*", Id("a"), y)),
            LetStatement("a", Id("b")), E(Id("a"))>> : x \in IntLits, y \in IntLits}
    \cup {<<LetStatement("a", x)>> : x \in Operands}
    \cup { <<LetStatement("a", Id("a"))>>,
           <<LetStatement("a", Id("a")), E(Id("a"))>>,
           <<LetStatement("a", Infix("+", Id("a"), Lit(1)))>>,
           <<E(If(Boolean(FALSE), <<LetStatement("a", Lit(1))>>)), E(Id("a"))>>,
           <<E(Id("a"))>>,
           <<LetStatement("a", Lit(1)), E(Infix("+", Id("a"), Id("b")))>>,
           <<LetStatement("a", Lit(2)), E(Id("a"))>>,
           <<E(Infix("+", Id("a"), Id("b")))>>,
           <<E(Lit(1))>>,
           <<>> }

\* let newAdder = fn(x) { fn(y) { x + y } }; let addTwo = newAdder(A); addTwo(B);
NewAdder(a, b) ==
    << LetStatement("newAdder",
          Fn(<<"x">>, <<E(Fn(<<"y">>, <<E(Infix("+", Id("x"), Id("y")))>>))>>)),
       LetStatement("addTwo", Call(Id("newAdder"), <<a>>)),
       E(Call(Id("addTwo"), <<b>>)) >>

\* let sub = fn(a, b) { fn(c) { b - a + c } }; sub(A, B)(C);
CaptureTwo(a, b, c) ==
    << LetStatement("sub",
          Fn(<<"a", "b">>,
             <<E(Fn(<<"c">>,
                    <<E(Infix("+", Infix("-", Id("b"), Id("a")), Id("c")))>>))>>)),
       E(Call(Call(Id("sub"), <<a, b>>), <<c>>)) >>

\* fn(a) { fn(b) { fn(c) { a - b - c } } }(A)(B)(C): a free value of a free value
CaptureNested(a, b, c) ==
    << E(Call(Call(Call(
          Fn(<<"a">>,
             <<E(Fn(<<"b">>,
                    <<E(Fn(<<"c">>,
                           <<E(Infix("-", Infix("-", Id("a"), Id("b")), Id("c")))>>))>>))>>),
          <<a>>), <<b>>), <<c>>)) >>

\* let counter = fn(x) { if (x > N) { return true; } else { counter(x + 1); } };
\* counter(0);
Counter(n) ==
    << LetStatement("counter",
          Fn(<<"x">>,
             <<E(IfElse(Infix(">", Id("x"), n),
                        <<ReturnStatement(Boolean(TRUE))>>,
                        <<E(Call(Id("counter"),
                                 <<Infix("+", Id("x"), Lit(1))>>))>>))>>)),
       E(Call(Id("counter"), <<Lit(0)>>)) >>

\* let fibo = fn(x) { if (x < 2) { return x; } fibo(x - 1) + fibo(x - 2); }; fibo(N);
Fibo(n) ==
    << LetStatement("fibo",
          Fn(<<"x">>,
             << E(If(Infix("<", Id("x"), Lit(2)), <<ReturnStatement(Id("x"))>>)),
                E(Infix("+", Call(Id("fibo"), <<Infix("-", Id("x"), Lit(1))>>),
                             Call(Id("fibo"), <<Infix("-", Id("x"), Lit(2))>>))) >>)),
       E(Call(Id("fibo"), <<n>>)) >>

\* let f = fn(a) { let b = a + X; let c = b * 2; c - a }; Y + f(Z);
Locals(x, y, z) ==
    << LetStatement("f",
          Fn(<<"a">>,
             << LetStatement("b", Infix("+", Id("a"), x)),
                LetStatement("c", Infix("*", Id("b"), Lit(2))),
                E(Infix("-", Id("c"), Id("a"))) >>)),
       E(Infix("+", y, Call(Id("f"), <<z>>))) >>

FunctionPrograms ==
    {NewAdder(a, b) : a \in IntLits, b \in IntLits \cup {Lit(3)}}
    \cup {CaptureTwo(a, b, c) : a \in IntLits, b \in IntLits, c \in IntLits}
    \cup {CaptureNested(a, b, c) : a \in IntLits, b \in IntLits, c \in IntLits}
    \cup {Counter(n) : n \in IntLits}
    \cup {Fibo(n) : n \in IntLits \cup {Lit(MaxInt + 1)}}
    \cup {Locals(x, y, z) : x \in IntLits, y \in IntLits, z \in IntLits}
    \cup { \* fn() { }();  and a body ending in a let
           <<E(Call(Fn(<<>>, <<>>), <<>>))>>,
           <<LetStatement("f", Fn(<<>>, <<LetStatement("a", Lit(1))>>)),
             E(Call(Id("f"), <<>>))>>,
           \* a local read before it is stored: fn() { let a = a; a }();
           <<E(Call(Fn(<<>>, <<LetStatement("a", Id("a")), E(Id("a"))>>), <<>>))>>,
           \* wrong number of arguments, calling a non-function
           <<E(Call(Fn(<<"a">>, <<E(Id("a"))>>), <<>>))>>,
           <<E(Call(Lit(1), <<Lit(2)>>))>>,
           \* a function that reads a global, and a return at top level
           <<LetStatement("g", Lit(2)),
             LetStatement("f", Fn(<<"a">>, <<ReturnStatement(Infix("*", Id("a"), Id("g")))>>)),
             E(Call(Id("f"), <<Lit(2)>>))>>,
           <<ReturnStatement(Lit(1))>>,
           \* a call with a value below the callee: 1 + fn() { 5 }();
           <<E(Infix("+", Lit(1), Call(Fn(<<>>, <<E(Lit(5))>>), <<>>)))>> }

\* "a" op "b" on string literals, a string bound to a name and compared
\* with itself, and comparisons of the Null an if without else leaves.
StrLits == {StringLiteral("a"), StringLiteral("b")}

NullExpression == If(Boolean(FALSE), <<E(Lit(1))>>)

StringPrograms ==
    {<<E(Infix(op, l, r))>> : op \in InfixOperators, l \in StrLits, r \in StrLits}
    \cup {<<LetStatement("s", l), E(Infix(op, Id("s"), Id("s")))>> :
            l \in StrLits, op \in {"==", "!="}}
    \cup {<<E(Infix(op, l, r))>> :
            op \in {"==", "!="},
            l \in StrLits \cup BoolLits \cup {NullExpression},
            r \in {NullExpression}}
    \cup {<<E(PrefixExpression(o1, l))>> : o1 \in PrefixOperators, l \in StrLits}
    \cup {<<E(PrefixExpression("!", PrefixExpression("!", e)))>> :
            e \in StrLits \cup {Lit(5), NullExpression}}

\* Array and hash literals, index expressions and a call of a builtin.
CollectionPrograms ==
    { <<E(ArrayLiteral(<<>>))>>,
      <<E(ArrayLiteral(<<Lit(1), Lit(2)>>))>>,
      <<E(IndexExpression(ArrayLiteral(<<Lit(1)>>), Lit(0)))>>,
      <<E(HashLiteral(<< <<StringLiteral("b"), Lit(1)>>,
                         <<StringLiteral("a"), Lit(2)>> >>))>>,
      <<E(IndexExpression(HashLiteral(<< <<Lit(2), Lit(1)>>, <<Lit(1), Lit(2)>> >>),
                          Lit(1)))>>,
      <<E(Call(Id("len"), <<StringLiteral("a")>>))>>,
      <<E(Id("puts"))>> }

\* The lines entered at the REPL first.
Programs == InfixPrograms \cup PrefixPrograms \cup IfPrograms
            \cup LetPrograms \cup StringPrograms \cup FunctionPrograms
            \cup CollectionPrograms

\* The lines entered after the first one.
LaterPrograms ==
    { <<E(Id("a"))>>,
      <<E(Infix("+", Id("a"), Id("b")))>>,
      <<LetStatement("a", Lit(2)), E(Id("a"))>>,
      <<ReturnStatement(Lit(1))>>,
      <<E(Lit(1))>> }

\* Bytecode holding bytes the switch of Run() has no case for: the opcodes
\* of locals, arrays, indexing, calls and returns, bytes code.go does not
\* define (26, 27 and 255), and instructions cut short of their operand.
UndefinedOpcode == 255

Bytecodes ==
    { [Instructions |-> <<OpTrue, UndefinedOpcode, OpPop>>, Constants |-> <<>>],
      [Instructions |-> <<OpReturn + 1, OpTrue, OpPop>>, Constants |-> <<>>],
      [Instructions |-> <<OpReturn, OpTrue, OpPop>>, Constants |-> <<>>],
      [Instructions |-> <<OpTrue, OpReturnValue, OpPop>>, Constants |-> <<>>],
      [Instructions |-> <<OpGetLocal, OpPop>>, Constants |-> <<>>],
      [Instructions |-> <<OpTrue, OpSetLocal, 0, OpPop>>, Constants |-> <<>>],
      [Instructions |-> <<OpTrue, OpCall, OpTrue, OpPop, OpPop>>,
       Constants |-> <<>>],
      [Instructions |-> <<OpReturn + 2, 0, 0, 0, OpPop>>,
       Constants |-> <<CompiledFunction(<<OpReturn>>, 0, 0, 0)>>],
      [Instructions |-> <<OpConstant, 0, 0, OpConstant, 0, 1, OpEqual, OpPop>>,
       Constants |-> <<CompiledFunction(<<OpReturn>>, 0, 0, 0),
                       CompiledFunction(<<OpReturn>>, 0, 0, 1)>>],
      [Instructions |-> <<OpConstant, 0, 0, OpConstant, 0, 0, OpEqual, OpPop>>,
       Constants |-> <<CompiledFunction(<<OpReturn>>, 0, 0, 0)>>],
      [Instructions |-> <<OpTrue, OpPop, OpConstant, 0>>,
       Constants |-> <<Integer(1)>>],
      [Instructions |-> <<OpTrue, OpJumpNotTruthy>>, Constants |-> <<>>],
      \* a global never set compared with an Integer and with True
      [Instructions |-> <<OpConstant, 0, 0, OpGetGlobal, 0, 0, OpEqual, OpPop>>,
       Constants |-> <<Integer(1)>>],
      [Instructions |-> <<OpConstant, 0, 0, OpGetGlobal, 0, 0, OpGreaterThan,
                          OpPop>>,
       Constants |-> <<Integer(1)>>],
      [Instructions |-> <<OpGetGlobal, 0, 0, OpConstant, 0, 0, OpNotEqual, OpPop>>,
       Constants |-> <<Integer(1)>>],
      [Instructions |-> <<OpTrue, OpGetGlobal, 0, 0, OpEqual, OpPop>>,
       Constants |-> <<>>],
      [Instructions |-> <<OpTrue, OpConstant, 0, 0, OpEqual, OpPop>>,
       Constants |-> <<Integer(1)>>],
      [Instructions |-> <<OpConstant, 0, 0, OpIndex, OpPop>>,
       Constants |-> <<Integer(1)>>],
      [Instructions |-> Make(OpConstant, <<0>>) \o Make(OpArray, <<1>>)
                        \o Make(OpPop, <<>>),
       Constants |-> <<Integer(1)>>],
      [Instructions |-> Make(OpArray, <<OpTrue * 256 + OpTrue>>)
                        \o Make(OpPop, <<>>) \o Make(OpPop, <<>>),
       Constants |-> <<>>],
      \* a global set, and the global read
      [Instructions |-> Make(OpConstant, <<0>>) \o Make(OpSetGlobal, <<0>>),
       Constants |-> <<Integer(5)>>],
      [Instructions |-> Make(OpGetGlobal, <<0>>) \o Make(OpPop, <<>>),
       Constants |-> <<>>] }

(***************************************************************************)
(* repl: Start reads a line, parses it, compiles the program with a new    *)
(* compiler, runs the bytecode on a new machine and prints the element     *)
(* popped last.  Nothing is kept from one line to the next.  The lines     *)
(* explored parse without errors.                                          *)
(***************************************************************************)
Init ==
    /\ program = <<>>
    /\ symbols = NewSymbolTable
    /\ lines = 0
    /\ constants = <<>>
    /\ stack = <<>>
    /\ sp = 0
    /\ globals = <<>>
    /\ frames = <<>>
    /\ status = "idle"
    /\ err = ""
    /\ stored = <<>>
    /\ calls = <<>>
    /\ turn = "read"
    /\ parser = [pc |-> "idle", p |-> New(<<>>), Statements |-> <<>>]
    /\ applied = [fn |-> "none"]

\* One turn of the loop of Start on a line that parses to the program p,
\* up to the call of Run: comp := compiler.New(); comp.Compile(program), on
\* whose error the loop continues with the next line;
\* machine := vm.New(comp.Bytecode()); machine.Run()
Start(p) ==
    /\ turn # "repl"
    /\ status \in {"idle", "compile_error", "done", "error"}
    /\ lines < MaxLines
    /\ \E c \in {CompileAll(p, NewCompiler(BuiltinSymbolTable))} :
         \E vm \in {NewVM(Bytecode(c))} :
           /\ program' = p
           /\ symbols' = c.tabs
           /\ lines' = lines + 1
           /\ IF c.err # "" THEN
                 /\ status' = "compile_error"
                 /\ err' = c.err
                 /\ constants' = <<>>
                 /\ stack' = <<>>
                 /\ sp' = 0
                 /\ frames' = <<>>
                 /\ calls' = <<>>
                 /\ turn' = "read"
                 /\ UNCHANGED << globals, stored >>
              ELSE
                 /\ status' = "running"
                 /\ turn' = "repl"
                 /\ err' = ""
                 /\ constants' = vm.constants
                 /\ stack' = vm.stack
                 /\ sp' = vm.sp
                 /\ frames' = vm.frames
                 /\ globals' = vm.globals
                 /\ stored' = <<>>
                 /\ calls' = <<NoCall>>
    /\ UNCHANGED << parser, applied >>

\* A caller of the package that hands bytecode, as it is, and the store of
\* the machine made last to NewWithGlobalsStore and runs the machine.
RunBytecode(bytecode) ==
    /\ turn # "repl"
    /\ status \in {"idle", "compile_error", "done", "error"}
    /\ lines < MaxLines
    /\ LET vm == NewWithGlobalsStore(bytecode, globals)
       IN  /\ program' = <<>>
           /\ lines' = lines + 1
           /\ status' = "running"
           /\ err' = ""
           /\ constants' = vm.constants
           /\ stack' = vm.stack
           /\ sp' = vm.sp
           /\ frames' = vm.frames
           /\ globals' = vm.globals
           /\ calls' = <<NoCall>>
           /\ turn' = "caller"
    /\ UNCHANGED << symbols, stored, parser, applied >>

\* The end of a turn of the loop of Start, when machine.Run() has returned.
\* On an error of Run the loop continues with the next line.  Else
\* stackTop := machine.LastPoppedStackElem() and stackTop.Inspect() is
\* written: vm.stack[vm.sp] panics when sp is StackSize, and Inspect()
\* called on the nil of a slot never written panics; the panic ends the
\* process and no further line is read.
EndOfTurn ==
    /\ turn = "repl"
    /\ status \in {"done", "error"}
    /\ IF status = "error" THEN
          /\ turn' = "read"
          /\ UNCHANGED << status, err >>
       ELSE IF LastPoppedStackElem.type = IndexOutOfRange.type THEN
          /\ status' = "panic"
          /\ err' = "index out of range"
          /\ UNCHANGED turn
       ELSE IF LastPoppedStackElem.type = NIL THEN
          /\ status' = "panic"
          /\ err' = "invalid memory address or nil pointer dereference"
          /\ UNCHANGED turn
       ELSE
          /\ turn' = "read"
          /\ UNCHANGED << status, err >>
    /\ UNCHANGED << program, symbols, lines, constants, stack, sp, globals,
                    frames, stored, calls, parser, applied >>

BytecodeLine == \E b \in Bytecodes : RunBytecode(b)

FirstLine == \E p \in Programs : lines = 0 /\ Start(p)

LaterLine == \E p \in LaterPrograms : lines > 0 /\ Start(p)

Next ==
    \/ FirstLine
    \/ LaterLine
    \/ EndOfTurn
    \/ BytecodeLine
    \/ ExecOpConstant
    \/ ExecBinaryOperation
    \/ ExecOpPop
    \/ ExecOpTrue
    \/ ExecOpFalse
    \/ ExecComparison
    \/ ExecOpBang
    \/ ExecOpMinus
    \/ ExecOpJump
    \/ ExecOpJumpNotTruthy
    \/ ExecOpNull
    \/ ExecOpSetGlobal
    \/ ExecOpGetGlobal
    \/ ExecNoCase
    \/ RunReturns

Spec == Init /\ [][Next]_vars

(***************************************************************************)
(* The inputs parsed, as the tokens the lexer yields for them.             *)
(***************************************************************************)
TIdent(name) == Token("IDENT", name)
TInt(digits) == Token("INT", digits)
Tk(type) == Token(type, type)

\* fn(x) { return x TAIL }
FnReturn(tail) ==
    << Token("FUNCTION", "fn"), Tk("("), TIdent("x"), Tk(")"), Tk("{"),
       Token("RETURN", "return"), TIdent("x") >> \o tail \o << Tk("}") >>

\* 5, x, x + 5, 010, 09, fn(x) { return x; }, fn(x) { return x },
\* if (x) { 1 } else { 2 }
SourceExpressions ==
    { <<TInt(<<5>>)>>, <<TIdent("x")>>, <<TIdent("x"), Tk("+"), TInt(<<5>>)>>,
      <<TInt(<<0, 1, 0>>)>>, <<TInt(<<0, 9>>)>>,
      FnReturn(<<Tk(";")>>), FnReturn(<<>>),
      << Token("IF", "if"), Tk("("), TIdent("x"), Tk(")"), Tk("{"), TInt(<<1>>),
         Tk("}"), Token("ELSE", "else"), Tk("{"), TInt(<<2>>), Tk("}") >> }

\* let x = e, return e and e, each with and without its semicolon
SimpleStatements ==
    {start \o e \o semicolon :
        start \in {<<>>, <<Token("RETURN", "return")>>,
                   <<Token("LET", "let"), TIdent("x"), Tk("=")>>},
        e \in SourceExpressions,
        semicolon \in {<<>>, <<Tk(";")>>}}

\* let = 5;   let x 5;   (1 + 2   1 +   )   fn(x, y { x }   if x   f(1, 2
\* return;    fn(x, y) { x + y; }(1, 2)     fn(1) { }   fn(1, x) { x }
\* the empty input
Malformed ==
    { <<Token("LET", "let"), Tk("="), TInt(<<5>>), Tk(";")>>,
      <<Token("LET", "let"), TIdent("x"), TInt(<<5>>), Tk(";")>>,
      <<Tk("("), TInt(<<1>>), Tk("+"), TInt(<<2>>)>>,
      <<TInt(<<1>>), Tk("+")>>,
      <<Tk(")")>>,
      <<Token("FUNCTION", "fn"), Tk("("), TIdent("x"), Tk(","), TIdent("y"),
        Tk("{"), TIdent("x"), Tk("}")>>,
      <<Token("IF", "if"), TIdent("x")>>,
      <<TIdent("f"), Tk("("), TInt(<<1>>), Tk(","), TInt(<<2>>)>>,
      <<Token("RETURN", "return"), Tk(";")>>,
      <<Token("FUNCTION", "fn"), Tk("("), TIdent("x"), Tk(","), TIdent("y"),
        Tk(")"), Tk("{"), TIdent("x"), Tk("+"), TIdent("y"), Tk(";"), Tk("}"),
        Tk("("), TInt(<<1>>), Tk(","), TInt(<<2>>), Tk(")")>>,
      <<Token("FUNCTION", "fn"), Tk("("), TInt(<<1>>), Tk(")"), Tk("{"), Tk("}")>>,
      <<Token("FUNCTION", "fn"), Tk("("), TInt(<<1>>), Tk(","), TIdent("x"), Tk(")"),
        Tk("{"), TIdent("x"), Tk("}")>>,
      <<>> }

StatementSources ==
    SimpleStatements
    \cup {s1 \o s2 : s1 \in SimpleStatements,
                     s2 \in {<<TIdent("y"), Tk(";")>>,
                             <<Token("RETURN", "return"), TIdent("y")>>}}
    \cup Malformed

\* The tokens of an expression written without parentheses.
RECURSIVE Unparse(_), UnparseList(_)
Unparse(e) ==
    CASE e.kind = "Identifier" -> <<TIdent(e.Value)>>
      [] e.kind = "IntegerLiteral" -> <<TInt(<<e.Value>>)>>
      [] e.kind = "Boolean" ->
            <<IF e.Value THEN Token("TRUE", "true") ELSE Token("FALSE", "false")>>
      [] e.kind = "PrefixExpression" -> <<Tk(e.Operator)>> \o Unparse(e.Right)
      [] e.kind = "InfixExpression" ->
            Unparse(e.Left) \o <<Tk(e.Operator)>> \o Unparse(e.Right)
      [] e.kind = "CallExpression" ->
            Unparse(e.Function) \o <<Tk("(")>> \o UnparseList(e.Arguments)
            \o <<Tk(")")>>

UnparseList(es) ==
    IF es = <<>> THEN <<>>
    ELSE IF Len(es) = 1 THEN Unparse(es[1])
    ELSE Unparse(es[1]) \o <<Tk(",")>> \o UnparseList(Tail(es))

\* x1 op1 x2 op2 ... xn, each operand an identifier, a literal, a prefix
\* operator on one of those, or a call.
RECURSIVE ChainTokens(_, _)
ChainTokens(xs, ops) ==
    IF ops = <<>> THEN Unparse(xs[1])
    ELSE Unparse(xs[1]) \o <<Tk(ops[1])>> \o ChainTokens(Tail(xs), Tail(ops))

Atoms ==
    { Id("a"), Lit(5), Boolean(TRUE),
      PrefixExpression("-", Id("a")), PrefixExpression("!", Id("a")),
      PrefixExpression("-", PrefixExpression("!", Id("a"))),
      Call(Id("f"), <<Id("a")>>),
      Call(Id("f"), <<Infix("+", Id("a"), Id("b")), Id("c")>>),
      PrefixExpression("-", Call(Id("f"), <<Id("a")>>)) }

Chains ==
    {[xs |-> <<x>>, ops |-> <<>>] : x \in Atoms}
    \cup {[xs |-> <<x, y>>, ops |-> <<o>>] :
            x \in Atoms, y \in Atoms, o \in InfixOperators}
    \cup {[xs |-> <<Id("a"), Id("b"), Id("c")>>, ops |-> <<o1, o2>>] :
            o1 \in InfixOperators, o2 \in InfixOperators}
    \cup {[xs |-> <<Id("a"), Id("b"), Id("c"), Id("d")>>, ops |-> <<o1, o2, o3>>] :
            o1 \in {"+", "*", "==", "<"}, o2 \in {"-", "/", "!=", ">"},
            o3 \in {"+", "*", "==", ">"}}
    \cup { \* a + b * c + d / e - f
           [xs |-> <<Id("a"), Id("b"), Id("c"), Id("d"), Id("e"), Id("f")>>,
            ops |-> <<"+", "*", "+", "/", "-">>] }

ChainSources == {ChainTokens(c.xs, c.ops) : c \in Chains}

\* myArray[1 + 1]   and   a * [1, 2, 3, 4][b * c] * d : the lexer has no
\* case for the brackets and yields ILLEGAL tokens for them.
IndexSources ==
    { << TIdent("myArray"), Token("ILLEGAL", "["), TInt(<<1>>), Tk("+"),
         TInt(<<1>>), Token("ILLEGAL", "]") >>,
      << TIdent("a"), Tk("*"), Token("ILLEGAL", "["), TInt(<<1>>), Tk(","),
         TInt(<<2>>), Tk(","), TInt(<<3>>), Tk(","), TInt(<<4>>),
         Token("ILLEGAL", "]"), Token("ILLEGAL", "["), TIdent("b"), Tk("*"),
         TIdent("c"), Token("ILLEGAL", "]"), Tk("*"), TIdent("d") >> }

Sources == StatementSources \cup ChainSources \cup IndexSources

(***************************************************************************)
(* ParseProgram(): the loop over the statements of the input, one          *)
(* statement per step.                                                     *)
(***************************************************************************)
VmUntouched ==
    UNCHANGED << program, symbols, lines, constants, stack, sp, globals,
                 frames, status, err, stored, calls, turn, applied >>

\* The parser values with which the loop of ParseProgram calls
\* parseStatement on the input toks, and parseStatement on each of them,
\* evaluated once for all the inputs.
RECURSIVE LoopHeads(_)
LoopHeads(p) ==
    IF curToken(p).Type = "EOF" THEN {}
    ELSE UNION {{p} \cup (IF r.p.hang THEN {} ELSE LoopHeads(nextToken(r.p))) :
                  r \in {parseStatement(p)}}

StatementAt ==
    [p \in UNION {LoopHeads(New(toks)) : toks \in Sources} |-> parseStatement(p)]

\* parser.New(lexer.New(input)) and the entry of ParseProgram.
ParseNew(toks) ==
    /\ parser' = [pc |-> "ParseProgram", p |-> New(toks), Statements |-> <<>>]
    /\ VmUntouched

ParseInput == parser.pc = "idle" /\ \E toks \in Sources : ParseNew(toks)

\* One pass of `for p.curToken.Type != token.EOF`: parse a statement,
\* append it, one token on.  A parseReturnStatement that finds no semicolon
\* never comes back.
ParseProgramLoop ==
    /\ parser.pc = "ParseProgram"
    /\ curToken(parser.p).Type # "EOF"
    /\ LET r == StatementAt[parser.p]
       IN  parser' = IF r.p.hang
                     THEN [parser EXCEPT !.pc = "parseReturnStatement", !.p = r.p]
                     ELSE [parser EXCEPT !.p = nextToken(r.p),
                                         !.Statements = Append(@, r.node)]
    /\ VmUntouched

\* curToken is EOF: ParseProgram returns the program.
ParseProgramReturn ==
    /\ parser.pc = "ParseProgram"
    /\ curToken(parser.p).Type = "EOF"
    /\ parser' = [parser EXCEPT !.pc = "returned"]
    /\ VmUntouched

\* One pass of `for !p.curTokenIs(token.SEMICOLON) { p.nextToken() }` at the
\* end of the input: curToken stays EOF.
SkipToSemicolon ==
    /\ parser.pc = "parseReturnStatement"
    /\ curToken(parser.p).Type # ";"
    /\ parser' = [parser EXCEPT !.p = nextToken(parser.p)]
    /\ VmUntouched

\* The steps of a call of ParseProgram.
ParseProgramStep ==
    \/ ParseProgramLoop
    \/ ParseProgramReturn
    \/ SkipToSemicolon

ParserNext ==
    \/ ParseInput
    \/ ParseProgramStep

\* A call of ParseProgram keeps running until it returns.
ParserSpec == Init /\ [][ParserNext]_vars /\ WF_vars(ParseProgramStep)

(***************************************************************************)
(* code: instructions made and decoded again.                              *)
(***************************************************************************)
OnlyApplied ==
    UNCHANGED << program, symbols, lines, constants, stack, sp, globals,
                 frames, status, err, stored, calls, turn, parser >>

\* Operand values at the ends and in the middle of the one-byte and the
\* two-byte range.
Uint8s == {0, 1, 127, 128, 255}
Uint16s == {0, 1, 255, 256, 257, 4660, 32768, 65534, 65535}

\* The operand lists that fit the widths.
RECURSIVE OperandLists(_)
OperandLists(widths) ==
    IF widths = <<>> THEN {<<>>}
    ELSE {<<o>> \o rest : o \in (IF Head(widths) = 1 THEN Uint8s ELSE Uint16s),
                          rest \in OperandLists(Tail(widths))}

\* Bytes without a definition in code.go: the one behind OpReturn, the
\* closure opcodes of the design and the last byte.
UndefinedOpcodes ==
    {OpReturn + 1, OpClosure, OpGetFree, OpCurrentClosure, UndefinedOpcode}

\* code.Make(op, operands...) on a defined opcode with operands that fit its
\* widths, and on a byte without a definition.
ApplyMake ==
    \E op \in DefinedOpcodes \cup UndefinedOpcodes :
        \E operands \in (IF Lookup(op) THEN OperandLists(OperandWidth(op))
                         ELSE {<<>>, <<1>>, <<65534, 255>>}) :
            /\ applied' = [fn |-> "Make", op |-> op, operands |-> operands,
                           out |-> Make(op, operands)]
            /\ OnlyApplied

\* def, err := code.Lookup(op) and, when a definition is found,
\* code.ReadOperands(def, ins[1:]) on the instruction made last
ApplyReadOperands ==
    /\ applied.fn = "Make"
    /\ Lookup(applied.op)
    /\ applied' = [fn |-> "ReadOperands", op |-> applied.op,
                   operands |-> applied.operands, ins |-> applied.out,
                   out |-> ReadOperands(applied.op, Tail(applied.out))]
    /\ OnlyApplied

\* func concatInstructions(s []code.Instructions) code.Instructions
RECURSIVE concatInstructions(_)
concatInstructions(s) ==
    IF s = <<>> THEN <<>> ELSE Head(s) \o concatInstructions(Tail(s))

\* func testInstructions(expected, actual) error: "" for nil; of a message
\* the text before the values it quotes.
testInstructions(expected, actual) ==
    LET concatted == concatInstructions(expected)
    IN  IF Len(actual) # Len(concatted) THEN "wrong instructions length"
        ELSE IF \E i \in 1 .. Len(concatted) : actual[i] # concatted[i]
             THEN "wrong instruction"
        ELSE ""

\* func testIntegerObject(expected int64, actual object.Object) error
testIntegerObject(expected, actual) ==
    IF actual.type # INTEGER_OBJ THEN "object is not Integer"
    ELSE IF actual.value # expected THEN "object has wrong value"
    ELSE ""

\* func testConstants(expected []interface{}, actual []object.Object) error,
\* on expected constants that are all of type int: the error of the first
\* constant that fails.
testConstants(expected, actual) ==
    IF Len(expected) # Len(actual) THEN "wrong number of constants"
    ELSE LET failing == {i \in 1 .. Len(expected) :
                            testIntegerObject(expected[i], actual[i]) # ""}
         IN  IF failing = {} THEN ""
             ELSE LET i == CHOOSE j \in failing : \A k \in failing : j <= k
                  IN  "testIntegerObject failed: "
                          \o testIntegerObject(expected[i], actual[i])

\* if (true) { 10 }; 3333;
IfTrueThen3333 == <<E(If(Boolean(TRUE), <<E(Lit(10))>>)), E(Lit(3333))>>

\* if (true) { 10 } else { 20 }; 3333;
IfTrueElseThen3333 ==
    <<E(IfElse(Boolean(TRUE), <<E(Lit(10))>>, <<E(Lit(20))>>)), E(Lit(3333))>>

\* TestConditionals: the programs its two inputs parse to and the
\* constants and instructions it expects of the compiler for each.
TestConditionals ==
    << [input |-> IfTrueThen3333,
        expectedConstants |-> <<10, 3333>>,
        expectedInstructions |->
            << Make(OpTrue, <<>>), Make(OpJumpNotTruthy, <<7>>),
               Make(OpConstant, <<0>>), Make(OpPop, <<>>),
               Make(OpConstant, <<1>>), Make(OpPop, <<>>) >>],
       [input |-> IfTrueElseThen3333,
        expectedConstants |-> <<10, 20, 3333>>,
        expectedInstructions |->
            << Make(OpTrue, <<>>), Make(OpJumpNotTruthy, <<10>>),
               Make(OpConstant, <<0>>), Make(OpJump, <<13>>),
               Make(OpConstant, <<1>>), Make(OpPop, <<>>),
               Make(OpConstant, <<2>>), Make(OpPop, <<>>) >>] >>

\* What compiler.Compile(program) and compiler.Bytecode() may give the test
\* for the case tt.  The sources hold no compiler.go, so the compiler under
\* test is one of two: the compiler of the design specification, or a
\* compiler that emits what the case expects.
CompiledForTest(tt) ==
    { [err |-> c.err, bytecode |-> Bytecode(c)] :
         c \in {CompileAll(tt.input, NewCompiler(BuiltinSymbolTable))} }
    \cup { [err |-> "",
            bytecode |->
               [Instructions |-> concatInstructions(tt.expectedInstructions),
                Constants |-> [i \in 1 .. Len(tt.expectedConstants) |->
                                  Integer(tt.expectedConstants[i])]]] }

\* One turn of the loop of runCompilerTests over the cases of
\* TestConditionals, in their order: the program is compiled by a new
\* compiler, testInstructions compares the instructions of its bytecode
\* with the expected ones and testConstants the constants.  An error ends
\* the test (t.Fatalf): the loop goes on to the next case only after a
\* turn without error.
ApplyRunCompilerTests ==
    \E k \in 1 .. Len(TestConditionals) :
        \E compiled \in CompiledForTest(TestConditionals[k]) :
            LET tt == TestConditionals[k]
                bytecode == compiled.bytecode
                instructionsErr ==
                    testInstructions(tt.expectedInstructions, bytecode.Instructions)
                constantsErr == testConstants(tt.expectedConstants, bytecode.Constants)
            IN  /\ IF k = 1 THEN applied.fn # "runCompilerTests"
                   ELSE /\ applied.fn = "runCompilerTests"
                        /\ applied.k = k - 1
                        /\ applied.err = ""
                /\ applied' =
                     [fn |-> "runCompilerTests", k |-> k, input |-> tt.input,
                      expected |-> concatInstructions(tt.expectedInstructions),
                      actual |-> bytecode.Instructions,
                      err |-> IF compiled.err # ""
                              THEN "compiler error: " \o compiled.err
                              ELSE IF instructionsErr # ""
                              THEN "testInstructions failed: " \o instructionsErr
                              ELSE IF constantsErr # ""
                              THEN "testConstants failed: " \o constantsErr
                              ELSE ""]
                /\ OnlyApplied

CodeNext ==
    \/ ApplyMake
    \/ ApplyReadOperands
    \/ ApplyRunCompilerTests

CodeSpec == Init /\ [][CodeNext]_vars

(***************************************************************************)
(* code: Instructions.String(), one iteration of its loop per step.  A     *)
(* line of the text is kept as the values formatted into it; the opcode    *)
(* stands for def.Name.                                                    *)
(***************************************************************************)
\* The text is kept up to this number of lines.
MaxOut == 3

\* func (ins Instructions) fmtInstruction(def, operands) string
fmtInstruction(op, operands) ==
    CASE Len(operands) # Len(OperandWidth(op)) -> <<"ERROR: operand len", Len(operands)>>
      [] Len(OperandWidth(op)) = 0 -> <<op>>
      [] Len(OperandWidth(op)) = 1 -> <<op, operands[1]>>
      [] OTHER -> <<"ERROR: unhandled operandCount", op>>

\* The bytes the operands of op take.
RECURSIVE Sum(_)
Sum(widths) == IF widths = <<>> THEN 0 ELSE Head(widths) + Sum(Tail(widths))

WriteLine(out, line) == IF Len(out) < MaxOut THEN Append(out, line) ELSE out

\* One instruction of each defined opcode, every operand 1.
OneOfEach == {Make(op, [k \in DOMAIN OperandWidth(op) |-> 1]) : op \in DefinedOpcodes}

\* Buffers of up to two instructions, with and without a byte that is no
\* opcode in front, between or behind, and instructions cut short.
Buffers ==
    {a \o b : a \in OneOfEach \cup {<<>>}, b \in OneOfEach \cup {<<>>}}
    \cup {a \o <<u>> \o b : a \in {<<>>, <<OpTrue>>}, b \in {<<>>, <<OpPop>>},
                             u \in UndefinedOpcodes}
    \cup {<<OpGetFree, 1>>, <<OpClosure, 0, 1, 1>>}
    \cup {<<OpConstant>>, <<OpConstant, 0>>, <<OpTrue, OpGetLocal>>}

StringStart ==
    \E ins \in Buffers :
        /\ applied.fn = "none"
        /\ applied' = [fn |-> "Instructions.String", ins |-> ins, i |-> 0,
                       out |-> <<>>, pc |-> "loop"]
        /\ OnlyApplied

\* One iteration of `for i < len(ins)`.  On an undefined opcode the ERROR
\* line is written and `continue` goes round with i as it is.  Operands
\* that the buffer does not hold in full make the read panic.
StringLoop ==
    /\ applied.fn = "Instructions.String"
    /\ applied.pc = "loop"
    /\ applied.i < Len(applied.ins)
    /\ LET ins == applied.ins
           i == applied.i
           op == ins[i + 1]
           rest == SubSeq(ins, i + 2, Len(ins))
       IN  applied' =
              IF ~Lookup(op)
              THEN [applied EXCEPT !.out = WriteLine(@, <<"ERROR: opcode is undefined", op>>)]
              ELSE IF Len(rest) < Sum(OperandWidth(op))
                   THEN [applied EXCEPT !.pc = "panic"]
              ELSE LET r == ReadOperands(op, rest)
                   IN  [applied EXCEPT
                           !.out = WriteLine(@, <<i>> \o fmtInstruction(op, r.operands)),
                           !.i = i + 1 + r.offset]
    /\ OnlyApplied

\* return out.String()
StringReturn ==
    /\ applied.fn = "Instructions.String"
    /\ applied.pc = "loop"
    /\ applied.i >= Len(applied.ins)
    /\ applied' = [applied EXCEPT !.pc = "returned"]
    /\ OnlyApplied

StringStep ==
    \/ StringLoop
    \/ StringReturn

DisassemblyNext ==
    \/ StringStart
    \/ StringStep

\* A call of String() keeps running until it returns or panics.
DisassemblySpec == Init /\ [][DisassemblyNext]_vars /\ WF_vars(StringStep)

(***************************************************************************)
(* object: hash keys.  A uint64 is kept as its four 16-bit limbs, least    *)
(* significant first.                                                      *)
(***************************************************************************)
HASH_OBJ == "HASH"
ERROR_OBJ == "ERROR"

\* uint64(n) of an int64 n: two's complement.
Uint64(n) ==
    LET sign == IF n < 0 THEN 65535 ELSE 0
    IN  << n % 65536, (n \div 65536) % 65536, sign, sign >>

\* a XOR b on numbers of `bits` bits.
RECURSIVE Xor(_, _, _)
Xor(a, b, bits) ==
    IF bits = 0 THEN 0
    ELSE ((a + b) % 2) + 2 * Xor(a \div 2, b \div 2, bits - 1)

\* x + y, x * m for a small m and x << 40, each modulo 2^64.
Add64(x, y) ==
    LET s1 == x[1] + y[1]
        s2 == x[2] + y[2] + s1 \div 65536
        s3 == x[3] + y[3] + s2 \div 65536
        s4 == x[4] + y[4] + s3 \div 65536
    IN  << s1 % 65536, s2 % 65536, s3 % 65536, s4 % 65536 >>

Mul64(x, m) ==
    LET t1 == x[1] * m
        t2 == x[2] * m + t1 \div 65536
        t3 == x[3] * m + t2 \div 65536
        t4 == x[4] * m + t3 \div 65536
    IN  << t1 % 65536, t2 % 65536, t3 % 65536, t4 % 65536 >>

Shl40(x) == << 0, 0, (x[1] * 256) % 65536, (x[2] * 256 + x[1] \div 256) % 65536 >>

\* hash/fnv: offset64 = 14695981039346656037 = 0xcbf29ce484222325 and
\* prime64 = 1099511628211 = 2^40 + 435.
offset64 == << 8997, 33826, 40164, 52210 >>

MulPrime64(x) == Add64(Shl40(x), Mul64(x, 435))

\* fnv.New64a(), Write(data), Sum64(): for each byte, hash ^= byte and then
\* hash *= prime64.
RECURSIVE Write64a(_, _)
Write64a(hash, data) ==
    IF data = <<>> THEN hash
    ELSE Write64a(MulPrime64(<< Xor(hash[1], Head(data), 16), hash[2], hash[3],
                                hash[4] >>),
                  Tail(data))

\* The objects with a HashKey method.
Hashable(obj) == obj.type \in {INTEGER_OBJ, BOOLEAN_OBJ, STRING_OBJ}

\* HashKey leaving the type of the key out.
HashKeyUntyped(obj) ==
    [Type |-> "",
     Value |-> CASE obj.type = INTEGER_OBJ -> Uint64(obj.value)
                 [] obj.type = BOOLEAN_OBJ -> Uint64(IF obj = True THEN 1 ELSE 0)
                 [] obj.type = STRING_OBJ -> Write64a(offset64, Bytes(obj.value))]

\* func (i *Integer) HashKey(), (b *Boolean) HashKey(), (s *String) HashKey()
HashKey(obj) ==
    [Type |-> obj.type,
     Value |-> CASE obj.type = INTEGER_OBJ -> Uint64(obj.value)
                 [] obj.type = BOOLEAN_OBJ -> Uint64(IF obj = True THEN 1 ELSE 0)
                 [] obj.type = STRING_OBJ -> Write64a(offset64, Bytes(obj.value))]

\* &object.Hash{Pairs: pairs}: pairs is a function from HashKeys to
\* HashPairs [Key, Value]; the pointer is told apart by addr.
Hash(pairs, addr) == [type |-> HASH_OBJ, Pairs |-> pairs, addr |-> addr]

\* &object.Error{Message: message}
Error(message) == [type |-> ERROR_OBJ, Message |-> message]

\* A run-time panic, as the value the evaluation ends with.
PANIC == "panic"
Panic(message) == [type |-> PANIC, Message |-> message]

NilDereference == Panic("invalid memory address or nil pointer dereference")

(***************************************************************************)
(* evaluator: the index operator on hashes.                                *)
(***************************************************************************)
\* The object a literal evaluates to (Eval, case *ast.IntegerLiteral,
\* *ast.Boolean and *ast.StringLiteral).
EvalLiteral(node) ==
    CASE node.kind = "IntegerLiteral" -> Integer(node.Value)
      [] node.kind = "Boolean" -> nativeBoolToBooleanObject(node.Value)
      [] node.kind = "StringLiteral" -> String(node.Value, 0)

\* func evalHashIndexExpression(hash, index object.Object) object.Object
evalHashIndexExpression(hash, index) ==
    IF index.type = NIL THEN NilDereference
    ELSE IF ~Hashable(index) THEN Error(<<"unusable as hash key", index.type>>)
    ELSE IF HashKey(index) \notin DOMAIN hash.Pairs THEN Null
    ELSE hash.Pairs[HashKey(index)].Value

KeyStrings == {"", "a", "b", "ab", "1", "true"}

HashableObjects ==
    {Integer(n) : n \in {-65536, -1, 0, 1, 2, 65536}}
    \cup {True, False}
    \cup {String(str, addr) : str \in KeyStrings, addr \in {0, 1}}

KeyLiterals ==
    {Lit(0), Lit(1), Boolean(TRUE), Boolean(FALSE), StringLiteral("a"),
     StringLiteral("b"), StringLiteral("1"), StringLiteral("true")}

\* {}, {k1: 10}, {k1: 10, k2: 20} and {k1: 10, k2: 20, 1: "a"}
HashLiterals ==
    {HashLiteral(<<>>)}
    \cup {HashLiteral(<< <<k1, Lit(10)>> >>) : k1 \in KeyLiterals}
    \cup {HashLiteral(<< <<k1, Lit(10)>>, <<k2, Lit(20)>> >>) :
            k1 \in KeyLiterals, k2 \in KeyLiterals}
    \cup {HashLiteral(<< <<k1, Lit(10)>>, <<k2, Lit(20)>>,
                         <<Lit(1), StringLiteral("a")>> >>) :
            k1 \in {Lit(0), Lit(1)}, k2 \in {Boolean(TRUE), StringLiteral("1")}}

\* a.HashKey() and b.HashKey() of two objects
ApplyHashKey ==
    \E a \in HashableObjects, b \in HashableObjects :
        /\ applied.fn = "none"
        /\ applied' = [fn |-> "HashKey", a |-> a, b |-> b,
                       out |-> << HashKey(a), HashKey(b) >>]
        /\ OnlyApplied

(***************************************************************************)
(* evaluator: the tree-walking Eval.  A value of the evaluation state      *)
(* holds the environments allocated so far (an environment is named by its *)
(* place in envs, outer = 0 for none), the backing arrays of the slices    *)
(* allocated so far, the nodes Eval was called on, in the order of the     *)
(* calls, with the part of an if expression a call is for noted before     *)
(* it, the objects whose Inspect() puts printed, and the orders in which   *)
(* Go will range over the maps of the hash literals yet to be evaluated.   *)
(* TRUE, FALSE and NULL are the singletons True, False and Null.  A        *)
(* run-time panic is the value the evaluation ends with.  A block is the   *)
(* sequence of its statements.                                             *)
(***************************************************************************)
RETURN_VALUE_OBJ == "RETURN_VAL"
FUNCTION_OBJ == "FUNCTION"
BUILTIN_OBJ == "BUILTIN"
ARRAY_OBJ == "ARRAY"

\* &object.ReturnValue{Value: value}, &object.Function{...}: pointers, told
\* apart by addr, the place in the trace of the call of Eval that made them.
ReturnValue(value, addr) == [type |-> RETURN_VALUE_OBJ, Value |-> value, addr |-> addr]
Function(params, body, env, addr) ==
    [type |-> FUNCTION_OBJ, Parameters |-> params, Body |-> body, Env |-> env,
     addr |-> addr]
Builtin(name) == [type |-> BUILTIN_OBJ, name |-> name]
\* &object.Array{Elements: elements}; elements is a slice: the backing
\* array, the offset into it, the length and the capacity.
ArrayObject(elements) == [type |-> ARRAY_OBJ, Elements |-> elements]
Slice3(arr, len, cap) == [arr |-> arr, off |-> 0, len |-> len, cap |-> cap]
\* What ends the evaluation of the enclosing node: the checks `isError(..)`
\* of Eval, and a panic, which unwinds through every caller.
Stops(obj) == obj.type \in {ERROR_OBJ, PANIC}

Log(st, node) == [st EXCEPT !.trace = Append(@, node)]

\* NewEnvironment(), as the first environment of a state.
NewEnvironment == [store |-> [n \in {} |-> Nil], outer |-> 0]

NewState ==
    [envs |-> <<NewEnvironment>>, heap |-> <<>>, trace |-> <<>>, out |-> <<>>,
     ranges |-> <<>>, part004 |-> FALSE]

\* func NewEnclosedEnvironment(outer *Environment) *Environment
NewEnclosedEnvironment(envs, outer) == Append(envs, [NewEnvironment EXCEPT !.outer = outer])

\* Get that looks in the outer environments first.
RECURSIVE EnvGetOuterFirst(_, _, _)
EnvGetOuterFirst(envs, e, name) ==
    LET outer == IF envs[e].outer # 0 THEN EnvGetOuterFirst(envs, envs[e].outer, name)
                 ELSE [ok |-> FALSE, obj |-> Nil]
    IN  IF outer.ok THEN outer
        ELSE IF name \in DOMAIN envs[e].store THEN [ok |-> TRUE, obj |-> envs[e].store[name]]
        ELSE [ok |-> FALSE, obj |-> Nil]

\* func (e *Environment) Get(name string) (Object, bool)
RECURSIVE EnvGet(_, _, _)
EnvGet(envs, e, name) ==
    IF name \in DOMAIN envs[e].store THEN [ok |-> TRUE, obj |-> envs[e].store[name]]
    ELSE IF envs[e].outer # 0 THEN EnvGet(envs, envs[e].outer, name)
    ELSE [ok |-> FALSE, obj |-> Nil]

\* Set that stores in the outermost environment of the chain.
RECURSIVE EnvSetOutermost(_, _, _, _)
EnvSetOutermost(envs, e, name, val) ==
    IF envs[e].outer # 0 THEN EnvSetOutermost(envs, envs[e].outer, name, val)
    ELSE [envs EXCEPT ![e].store =
             [n \in DOMAIN @ \cup {name} |-> IF n = name THEN val ELSE @[n]]]

\* func (e *Environment) Set(name string, val Object) Object
EnvSet(envs, e, name, val) ==
    [envs EXCEPT ![e].store =
        [n \in DOMAIN @ \cup {name} |-> IF n = name THEN val ELSE @[n]]]

\* The elements a slice holds.
Elements(heap, s) == [k \in 1 .. s.len |-> heap[s.arr][s.off + k]]

\* make([]object.Object, n, n) filled with `elements`: a new backing array.
MakeSlice(heap, elements) ==
    [heap |-> Append(heap, elements),
     slice |-> Slice3(Len(heap) + 1, Len(elements), Len(elements))]

\* The capacity append() leaves a slice grown from nil to n elements with.
RECURSIVE GrownCap(_, _)
GrownCap(n, cap) ==
    IF n <= cap THEN cap ELSE GrownCap(n, IF cap = 0 THEN 1 ELSE 2 * cap)

\* var result []object.Object; result = append(result, ...) n times.
AppendedSlice(heap, elements) ==
    LET cap == GrownCap(Len(elements), 0)
    IN  [heap |-> Append(heap, [k \in 1 .. cap |->
                                  IF k <= Len(elements) THEN elements[k] ELSE Nil]),
         slice |-> Slice3(Len(heap) + 1, Len(elements), cap)]

builtinNames == {"len", "first", "last", "rest", "push", "puts"}

WrongNumber(got, want) == Error(<<"wrong number of arguments", got, want>>)

builtinLen(args, st) ==
    [st |-> st,
     obj |-> IF Len(args) # 1 THEN WrongNumber(Len(args), 1)
             ELSE IF args[1].type = STRING_OBJ THEN Integer(Len(args[1].value))
             ELSE IF args[1].type = ARRAY_OBJ THEN Integer(args[1].Elements.len)
             ELSE IF args[1].type = NIL THEN NilDereference
             ELSE Error(<<"argument to len not supported", args[1].type>>)]

\* first (at = 1) and last (at = 0, counted from the end)
builtinFirstLast(name, args, st) ==
    [st |-> st,
     obj |-> IF Len(args) # 1 THEN WrongNumber(Len(args), 1)
             ELSE IF args[1].type = NIL THEN NilDereference
             ELSE IF args[1].type # ARRAY_OBJ
                  THEN Error(<<"argument must be ARRAY", name, args[1].type>>)
             ELSE LET arr == args[1].Elements
                  IN  IF arr.len > 0
                      THEN Elements(st.heap, arr)[IF name = "first" THEN 1 ELSE arr.len]
                      ELSE Null]

\* rest that returns arr.Elements[1:length], a slice of the same array.
builtinRestShared(args, st) ==
    [st |-> st,
     obj |-> IF Len(args) # 1 THEN WrongNumber(Len(args), 1)
             ELSE IF args[1].type = NIL THEN NilDereference
             ELSE IF args[1].type # ARRAY_OBJ
                  THEN Error(<<"argument must be ARRAY", "rest", args[1].type>>)
             ELSE LET arr == args[1].Elements
                  IN  IF arr.len > 0
                      THEN ArrayObject([arr EXCEPT !.off = @ + 1, !.len = @ - 1,
                                                   !.cap = @ - 1])
                      ELSE Null]

\* "rest"
builtinRest(args, st) ==
    IF Len(args) # 1 THEN [st |-> st, obj |-> WrongNumber(Len(args), 1)]
    ELSE IF args[1].type = NIL THEN [st |-> st, obj |-> NilDereference]
    ELSE IF args[1].type # ARRAY_OBJ
         THEN [st |-> st, obj |-> Error(<<"argument must be ARRAY", "rest", args[1].type>>)]
    ELSE LET arr == args[1].Elements
             made == MakeSlice(st.heap, Tail(Elements(st.heap, arr)))
         IN  IF arr.len > 0
             THEN [st |-> [st EXCEPT !.heap = made.heap], obj |-> ArrayObject(made.slice)]
             ELSE [st |-> st, obj |-> Null]

\* push that returns append(arr.Elements, args[1]): the new element is
\* written into the array of the argument when its capacity allows.
builtinPushAppend(args, st) ==
    IF Len(args) # 2 THEN [st |-> st, obj |-> WrongNumber(Len(args), 2)]
    ELSE IF args[1].type = NIL THEN [st |-> st, obj |-> NilDereference]
    ELSE IF args[1].type # ARRAY_OBJ
         THEN [st |-> st, obj |-> Error(<<"argument must be ARRAY", "push", args[1].type>>)]
    ELSE LET arr == args[1].Elements
             grown == AppendedSlice(st.heap, Append(Elements(st.heap, arr), args[2]))
         IN  IF arr.len < arr.cap
             THEN [st |-> [st EXCEPT !.heap[arr.arr][arr.off + arr.len + 1] = args[2]],
                   obj |-> ArrayObject([arr EXCEPT !.len = @ + 1])]
             ELSE [st |-> [st EXCEPT !.heap = grown.heap], obj |-> ArrayObject(grown.slice)]

\* "push"
builtinPush(args, st) ==
    IF Len(args) # 2 THEN [st |-> st, obj |-> WrongNumber(Len(args), 2)]
    ELSE IF args[1].type = NIL THEN [st |-> st, obj |-> NilDereference]
    ELSE IF args[1].type # ARRAY_OBJ
         THEN [st |-> st, obj |-> Error(<<"argument must be ARRAY", "push", args[1].type>>)]
    ELSE LET arr == args[1].Elements
             made == MakeSlice(st.heap, Append(Elements(st.heap, arr), args[2]))
         IN  [st |-> [st EXCEPT !.heap = made.heap], obj |-> ArrayObject(made.slice)]

\* Whether obj.Inspect() panics: Inspect called on nil, by ReturnValue on
\* its Value, by Array on its elements and by Hash on its keys and values,
\* and Body.String() called by Function.
RECURSIVE InspectPanics(_, _)
InspectPanics(obj, heap) ==
    CASE obj.type = NIL -> TRUE
      [] obj.type = RETURN_VALUE_OBJ -> InspectPanics(obj.Value, heap)
      [] obj.type = ARRAY_OBJ ->
            \E k \in 1 .. obj.Elements.len :
                InspectPanics(Elements(heap, obj.Elements)[k], heap)
      [] obj.type = HASH_OBJ ->
            \E k \in DOMAIN obj.Pairs :
                \/ InspectPanics(obj.Pairs[k].Key, heap)
                \/ InspectPanics(obj.Pairs[k].Value, heap)
      [] obj.type = FUNCTION_OBJ ->
            \E written \in NodeString(BlockStatement(obj.Body)) : written.panic
      [] OTHER -> FALSE

\* "puts": fmt.Println(arg.Inspect()) for each argument in turn; the
\* object inspected stands for the line printed.
builtinPuts(args, st) ==
    LET panics == {k \in DOMAIN args : InspectPanics(args[k], st.heap)}
        first == CHOOSE k \in panics : \A j \in panics : k <= j
    IN  IF panics # {}
        THEN [st |-> [st EXCEPT !.out = @ \o SubSeq(args, 1, first - 1)],
              obj |-> NilDereference]
        ELSE [st |-> [st EXCEPT !.out = @ \o args], obj |-> Null]

\* var builtin = map[string]*object.Builtin{...}: fn.Fn(args...)
builtin(name, args, st) ==
    CASE name = "len" -> builtinLen(args, st)
      [] name \in {"first", "last"} -> builtinFirstLast(name, args, st)
      [] name = "rest" -> builtinRest(args, st)
      [] name = "push" -> builtinPush(args, st)
      [] name = "puts" -> builtinPuts(args, st)

\* func evalBangOperatorExpression(right object.Object) object.Object
evalBangOperatorExpression(right) ==
    IF right.type = BOOLEAN_OBJ THEN nativeBoolToBooleanObject(right.value = 0)
    ELSE IF right.type = NULL_OBJ THEN True
    ELSE False

\* func evalMinusPrefixOperatorExpression(right object.Object) object.Object
evalMinusPrefixOperatorExpression(right) ==
    IF right.type = NIL THEN NilDereference
    ELSE IF right.type # INTEGER_OBJ THEN Error(<<"unknown operator", "-", right.type>>)
    ELSE Integer(-right.value)

\* func evalPrefixExpression(operator string, right object.Object) object.Object
evalPrefixExpression(operator, right) ==
    IF operator = "!" THEN evalBangOperatorExpression(right)
    ELSE IF operator = "-" THEN evalMinusPrefixOperatorExpression(right)
    ELSE IF right.type = NIL THEN NilDereference
    ELSE Error(<<"unknown operator", operator, right.type>>)

\* func evalIntegerInfixExpression(operator string, left, right object.Object)
evalIntegerInfixExpression(operator, left, right) ==
    LET leftVal == left.value
        rightVal == right.value
    IN  CASE operator = "+" -> Integer(leftVal + rightVal)
          [] operator = "-" -> Integer(leftVal - rightVal)
          [] operator = "*" -> Integer(leftVal * rightVal)
          [] operator = "/" -> IF rightVal = 0 THEN Panic("integer divide by zero")
                               ELSE Integer(GoDiv(leftVal, rightVal))
          [] operator = "<" -> nativeBoolToBooleanObject(leftVal < rightVal)
          [] operator = ">" -> nativeBoolToBooleanObject(leftVal > rightVal)
          [] operator = "==" -> nativeBoolToBooleanObject(leftVal = rightVal)
          [] operator = "!=" -> nativeBoolToBooleanObject(leftVal # rightVal)
          [] OTHER -> Error(<<"unknown operator", left.type, operator, right.type>>)

\* func evalStringInfixExpression(operator string, left, right object.Object)
evalStringInfixExpression(operator, left, right) ==
    IF operator # "+" THEN Error(<<"unknown operator", left.type, operator, right.type>>)
    ELSE String(left.value \o right.value, 0)

\* left == right on object.Object values: the same pointer.
SamePointer(left, right) ==
    IF left.type # right.type THEN FALSE
    ELSE IF left.type \in {BOOLEAN_OBJ, NULL_OBJ, NIL} THEN left.value = right.value
    ELSE IF left.type \in {FUNCTION_OBJ, RETURN_VALUE_OBJ, HASH_OBJ}
         THEN left.addr = right.addr
    ELSE IF left.type = ARRAY_OBJ THEN left.Elements = right.Elements
    ELSE IF left.type = BUILTIN_OBJ THEN left.name = right.name
    ELSE FALSE

\* func evalInfixExpression(operator string, left, right object.Object)
evalInfixExpression(operator, left, right) ==
    IF left.type = NIL THEN NilDereference
    ELSE IF left.type \in {INTEGER_OBJ, STRING_OBJ} /\ right.type = NIL THEN NilDereference
    ELSE IF left.type = INTEGER_OBJ /\ right.type = INTEGER_OBJ
         THEN evalIntegerInfixExpression(operator, left, right)
    ELSE IF left.type = STRING_OBJ /\ right.type = STRING_OBJ
         THEN evalStringInfixExpression(operator, left, right)
    ELSE IF operator = "==" THEN nativeBoolToBooleanObject(SamePointer(left, right))
    ELSE IF operator = "!=" THEN nativeBoolToBooleanObject(~SamePointer(left, right))
    ELSE IF right.type = NIL THEN NilDereference
    ELSE IF left.type # right.type
         THEN Error(<<"type mismatch", left.type, operator, right.type>>)
    ELSE Error(<<"unknown operator", left.type, operator, right.type>>)

\* The evaluator's isTruthy: a switch on the singletons, nil is truthy.
isTruthyObject(obj) ==
    IF obj.type = NULL_OBJ THEN FALSE
    ELSE IF obj.type = BOOLEAN_OBJ THEN obj.value = 1
    ELSE TRUE

\* func unwrapReturnValue(obj object.Object) object.Object
unwrapReturnValue(obj) == IF obj.type = RETURN_VALUE_OBJ THEN obj.Value ELSE obj

\* func evalArrayIndexExpressions(array, index object.Object) object.Object
evalArrayIndexExpressions(heap, array, index) ==
    LET idx == index.value
        max == array.Elements.len - 1
    IN  IF idx < 0 \/ max < idx THEN Null ELSE Elements(heap, array.Elements)[idx + 1]

\* func evalIndexExpression(left, index object.Object) object.Object:
\* left.Type() and, on an array, index.Type() panic on nil.
evalIndexExpression(heap, left, index) ==
    IF left.type = NIL THEN NilDereference
    ELSE IF left.type = ARRAY_OBJ /\ index.type = NIL THEN NilDereference
    ELSE IF left.type = ARRAY_OBJ /\ index.type = INTEGER_OBJ
         THEN evalArrayIndexExpressions(heap, left, index)
    ELSE IF left.type = HASH_OBJ THEN evalHashIndexExpression(left, index)
    ELSE Error(<<"index operator not supported", left.type>>)

\* evalIdentifier of the older copy of the package: no builtins.
evalIdentifierPart004(node, env, st) ==
    IF EnvGet(st.envs, env, node.Value).ok THEN EnvGet(st.envs, env, node.Value).obj
    ELSE Error(<<"identifier not found", node.Value>>)

\* func evalIdentifier(node *ast.Identifier, env *object.Environment)
evalIdentifier(node, env, st) ==
    IF EnvGet(st.envs, env, node.Value).ok THEN EnvGet(st.envs, env, node.Value).obj
    ELSE IF node.Value \in builtinNames THEN Builtin(node.Value)
    ELSE Error(<<"identifier not found", node.Value>>)

\* The loop of extendFunctionEnv: env.Set(param.Value, args[paramIdx]).
\* args[paramIdx] past the last argument panics, and the environments stay
\* as the loop left them.
RECURSIVE SetParameters(_, _, _, _, _)
SetParameters(envs, env, params, args, k) ==
    IF k > Len(params) \/ k > Len(args) THEN envs
    ELSE SetParameters(EnvSet(envs, env, params[k], args[k]), env, params, args, k + 1)

\* extendFunctionEnv that encloses the environment of the caller.
extendFunctionEnvOfCaller(fn, args, envs, caller) ==
    SetParameters(NewEnclosedEnvironment(envs, caller), Len(envs) + 1,
                  fn.Parameters, args, 1)

\* func extendFunctionEnv(fn *object.Function, args []object.Object): the
\* environments with the new one last.  `caller` is not among the arguments
\* of the source.
extendFunctionEnv(fn, args, envs, caller) ==
    SetParameters(NewEnclosedEnvironment(envs, fn.Env), Len(envs) + 1,
                  fn.Parameters, args, 1)

RECURSIVE Eval(_, _, _)
RECURSIVE evalProgramLoop(_, _, _, _, _), evalBlockLoop(_, _, _, _, _)
RECURSIVE evalExpressionsLoop(_, _, _, _, _)
RECURSIVE evalHashLoop(_, _, _, _, _, _, _)

\* func evalProgram(program *ast.Program, env *object.Environment)
evalProgramLoop(stmts, k, env, st, result) ==
    IF k > Len(stmts) THEN [obj |-> result, st |-> st]
    ELSE Only({ IF r.obj.type = RETURN_VALUE_OBJ THEN [obj |-> r.obj.Value, st |-> r.st]
                ELSE IF Stops(r.obj) THEN r
                ELSE evalProgramLoop(stmts, k + 1, env, r.st, r.obj) :
                r \in {Eval(stmts[k], env, st)} })

evalProgram(statements, env, st) == evalProgramLoop(statements, 1, env, st, Nil)

\* evalBlockStatement that unwraps a ReturnValue as evalProgram does.
evalBlockLoopUnwrapping(stmts, k, env, st, result) ==
    IF k > Len(stmts) THEN [obj |-> result, st |-> st]
    ELSE Only({ IF r.obj.type = RETURN_VALUE_OBJ THEN [obj |-> r.obj.Value, st |-> r.st]
                ELSE IF Stops(r.obj) THEN r
                ELSE evalBlockLoop(stmts, k + 1, env, r.st, r.obj) :
                r \in {Eval(stmts[k], env, st)} })

\* func evalBlockStatement(block *ast.BlockStatement, env *object.Environment)
evalBlockLoop(stmts, k, env, st, result) ==
    IF k > Len(stmts) THEN [obj |-> result, st |-> st]
    ELSE Only({ IF r.obj.type = RETURN_VALUE_OBJ \/ Stops(r.obj) THEN r
                ELSE evalBlockLoop(stmts, k + 1, env, r.st, r.obj) :
                r \in {Eval(stmts[k], env, st)} })

\* Eval(block, env), case *ast.BlockStatement
evalBlockStatement(block, env, st) ==
    evalBlockLoop(block, 1, env, Log(st, BlockStatement(block)), Nil)

\* func evalExpressions(exps []ast.Expression, env *object.Environment)
evalExpressionsLoop(exps, k, env, st, result) ==
    IF k > Len(exps) THEN [objs |-> result, st |-> st]
    ELSE Only({ IF Stops(r.obj) THEN [objs |-> <<r.obj>>, st |-> r.st]
                ELSE evalExpressionsLoop(exps, k + 1, env, r.st, Append(result, r.obj)) :
                r \in {Eval(exps[k], env, st)} })

evalExpressions(exps, env, st) == evalExpressionsLoop(exps, 1, env, st, <<>>)

\* Which part of the if expression `ie` the next call of Eval is for.
IfEvent(part, ie) == [kind |-> part, If |-> ie]

\* evalIfExpression that evaluates the alternative when the condition is
\* truthy and the consequence when it is not.
evalIfExpressionSwapped(ie, env, st) ==
    Only({ IF Stops(c.obj) THEN c
           ELSE IF ~isTruthyObject(c.obj)
                THEN evalBlockStatement(ie.Consequence, env, Log(c.st, IfEvent("Consequence", ie)))
           ELSE IF ie.HasAlternative
                THEN evalBlockStatement(ie.Alternative, env, Log(c.st, IfEvent("Alternative", ie)))
           ELSE [obj |-> Null, st |-> c.st] :
           c \in {Eval(ie.Condition, env, Log(st, IfEvent("Condition", ie)))} })

\* func evalIfExpression(ie *ast.IfExpression, env *object.Environment)
evalIfExpression(ie, env, st) ==
    Only({ IF Stops(c.obj) THEN c
           ELSE IF isTruthyObject(c.obj)
                THEN evalBlockStatement(ie.Consequence, env, Log(c.st, IfEvent("Consequence", ie)))
           ELSE IF ie.HasAlternative
                THEN evalBlockStatement(ie.Alternative, env, Log(c.st, IfEvent("Alternative", ie)))
           ELSE [obj |-> Null, st |-> c.st] :
           c \in {Eval(ie.Condition, env, Log(st, IfEvent("Condition", ie)))} })

\* The nil *ast.BlockStatement an if expression without else holds as its
\* Alternative.
NilBlockStatement == [kind |-> "BlockStatement(nil)"]

\* evalIfExpression of the older copy of the package: with a condition that
\* is not truthy it calls Eval(ie.Alternative, env) and, when that is not
\* nil, calls Eval(ie.Alternative, env) again and returns what the second
\* call returns.  Eval of the nil block of an if without else reaches
\* evalBlockStatement, whose block.Statements panics.
evalIfExpressionPart004(ie, env, st) ==
    Only({ IF Stops(c.obj) THEN c
           ELSE IF isTruthyObject(c.obj)
                THEN evalBlockStatement(ie.Consequence, env, Log(c.st, IfEvent("Consequence", ie)))
           ELSE IF ~ie.HasAlternative
                THEN [obj |-> NilDereference,
                      st |-> Log(Log(c.st, IfEvent("Alternative", ie)), NilBlockStatement)]
           ELSE Only({ IF first.obj.type = PANIC THEN first
                       ELSE IF first.obj.type = NIL THEN [obj |-> Null, st |-> first.st]
                       ELSE evalBlockStatement(ie.Alternative, env,
                                               Log(first.st, IfEvent("Alternative", ie))) :
                       first \in {evalBlockStatement(ie.Alternative, env,
                                      Log(c.st, IfEvent("Alternative", ie)))} }) :
           c \in {Eval(ie.Condition, env, Log(st, IfEvent("Condition", ie)))} })

\* func applyFunction(fn object.Object, args []object.Object) object.Object
applyFunction(fn, args, st, caller) ==
    IF fn.type = FUNCTION_OBJ
    THEN IF Len(args) < Len(fn.Parameters)
         THEN [obj |-> Panic("index out of range"),
               st |-> [st EXCEPT !.envs = extendFunctionEnv(fn, args, @, caller)]]
         ELSE Only({ [obj |-> unwrapReturnValue(r.obj), st |-> r.st] :
                     r \in {evalBlockStatement(fn.Body, Len(st.envs) + 1,
                               [st EXCEPT !.envs = extendFunctionEnv(fn, args, @, caller)])} })
    ELSE IF fn.type = BUILTIN_OBJ THEN builtin(fn.name, args, st)
    ELSE IF fn.type = NIL THEN [obj |-> NilDereference, st |-> st]
    ELSE [obj |-> Error(<<"not a function", fn.type>>), st |-> st]

\* The loop of evalHashLiteral over node.Pairs, ranged over in `order`;
\* `pairs` is the map built so far.
evalHashLoop(node, order, k, env, st, pairs, addr) ==
    IF k > Len(order) THEN [obj |-> Hash(pairs, addr), st |-> st]
    ELSE Only({
           IF Stops(key.obj) THEN key
           \* key.(object.Hashable) fails on nil, and key.Type() panics
           ELSE IF key.obj.type = NIL THEN [obj |-> NilDereference, st |-> key.st]
           ELSE IF ~Hashable(key.obj)
                THEN [obj |-> Error(<<"unusable as hash key", key.obj.type>>),
                      st |-> key.st]
           ELSE Only({
                  IF Stops(value.obj) THEN value
                  ELSE evalHashLoop(node, order, k + 1, env, value.st,
                                    [h \in DOMAIN pairs \cup {HashKey(key.obj)} |->
                                        IF h = HashKey(key.obj)
                                        THEN [Key |-> key.obj, Value |-> value.obj]
                                        ELSE pairs[h]],
                                    addr) :
                  value \in {Eval(node.Pairs[order[k]][2], env, key.st)} }) :
           key \in {Eval(node.Pairs[order[k]][1], env, st)} })

\* func evalHashLiteral(node *ast.HashLiteral, env *object.Environment):
\* the order of this range over node.Pairs is the first of st.ranges.
evalHashLiteral(node, env, st) ==
    evalHashLoop(node, Head(st.ranges), 1, env, [st EXCEPT !.ranges = Tail(@)],
                 [h \in {} |-> Null], Len(st.trace))

\* The nodes the switch of Eval has a case for in evaluator.go and none in
\* the older copy of the package.
NoCaseInPart004 ==
    {"StringLiteral", "FunctionLiteral", "CallExpression", "ArrayLiteral",
     "IndexExpression", "HashLiteral"}

\* func Eval(node ast.Node, env *object.Environment) object.Object, of
\* evaluator.go and, in a state with part004 set, of the older copy.
Eval(node, env, st0) ==
    LET st == Log(st0, node)
    IN  IF st0.part004 /\ node.kind \in NoCaseInPart004 THEN [obj |-> Nil, st |-> st]
        ELSE
        CASE node.kind = "Program" -> evalProgram(node.Statements, env, st)
          [] node.kind = "BlockStatement" -> evalBlockLoop(node.Statements, 1, env, st, Nil)
          [] node.kind = "ExpressionStatement" -> Eval(node.Expression, env, st)
          \* node.Value on a nil *ast.LetStatement
          [] node.kind = "LetStatement(nil)" -> [obj |-> NilDereference, st |-> st]
          [] node.kind = "LetStatement" ->
               Only({ IF Stops(v.obj) THEN v
                      ELSE [obj |-> Nil,
                            st |-> [v.st EXCEPT !.envs = EnvSet(@, env, node.Name, v.obj)]] :
                      v \in {Eval(node.Value, env, st)} })
          [] node.kind = "ReturnStatement" ->
               Only({ IF Stops(v.obj) THEN v
                      ELSE [obj |-> ReturnValue(v.obj, Len(st.trace)), st |-> v.st] :
                      v \in {Eval(node.ReturnValue, env, st)} })
          [] node.kind = "IntegerLiteral" -> [obj |-> Integer(node.Value), st |-> st]
          [] node.kind = "Boolean" ->
               [obj |-> nativeBoolToBooleanObject(node.Value), st |-> st]
          [] node.kind = "StringLiteral" -> [obj |-> String(node.Value, 0), st |-> st]
          [] node.kind = "PrefixExpression" ->
               Only({ IF Stops(r.obj) THEN r
                      ELSE [obj |-> evalPrefixExpression(node.Operator, r.obj), st |-> r.st] :
                      r \in {Eval(node.Right, env, st)} })
          [] node.kind = "InfixExpression" ->
               Only({ IF Stops(l.obj) THEN l
                      ELSE Only({ IF Stops(r.obj) THEN r
                                  ELSE [obj |-> evalInfixExpression(node.Operator, l.obj, r.obj),
                                        st |-> r.st] :
                                  r \in {Eval(node.Right, env, l.st)} }) :
                      l \in {Eval(node.Left, env, st)} })
          [] node.kind = "IfExpression" ->
               IF st0.part004 THEN evalIfExpressionPart004(node, env, st)
               ELSE evalIfExpression(node, env, st)
          [] node.kind = "Identifier" ->
               [obj |-> IF st0.part004 THEN evalIdentifierPart004(node, env, st)
                        ELSE evalIdentifier(node, env, st),
                st |-> st]
          [] node.kind = "FunctionLiteral" ->
               [obj |-> Function(node.Parameters, node.Body, env, Len(st.trace)), st |-> st]
          [] node.kind = "CallExpression" ->
               Only({ IF Stops(f.obj) THEN f
                      ELSE Only({ IF Len(a.objs) = 1 /\ Stops(a.objs[1])
                                  THEN [obj |-> a.objs[1], st |-> a.st]
                                  ELSE applyFunction(f.obj, a.objs, a.st, env) :
                                  a \in {evalExpressions(node.Arguments, env, f.st)} }) :
                      f \in {Eval(node.Function, env, st)} })
          [] node.kind = "ArrayLiteral" ->
               Only({ IF Len(a.objs) = 1 /\ Stops(a.objs[1])
                      THEN [obj |-> a.objs[1], st |-> a.st]
                      ELSE Only({ [obj |-> ArrayObject(made.slice),
                                   st |-> [a.st EXCEPT !.heap = made.heap]] :
                                  made \in {AppendedSlice(a.st.heap, a.objs)} }) :
                      a \in {evalExpressions(node.Elements, env, st)} })
          [] node.kind = "IndexExpression" ->
               Only({ IF Stops(l.obj) THEN l
                      ELSE Only({ IF Stops(i.obj) THEN i
                                  ELSE [obj |-> evalIndexExpression(i.st.heap, l.obj, i.obj),
                                        st |-> i.st] :
                                  i \in {Eval(node.Index, env, l.st)} }) :
                      l \in {Eval(node.Left, env, st)} })
          [] node.kind = "HashLiteral" -> evalHashLiteral(node, env, st)
          \* a nil node, no case of the switch: return nil
          [] node.kind = "nil" -> [obj |-> Nil, st |-> st]

\* Eval(program, env) on a new environment.
EvalProgram(statements) == evalProgram(statements, 1, NewState)

\* Eval(program, env) on a new environment, the maps of the hash literals
\* ranged over in the orders `ranges`.
EvalRanging(statements, ranges) ==
    evalProgram(statements, 1, [NewState EXCEPT !.ranges = ranges])

\* Statements after which the value of the program is read.
ReturnPrograms ==
    LET Ret(n) == ReturnStatement(Lit(n))
        Inner(n) == E(If(Boolean(TRUE), <<Ret(n), E(Lit(n + 1))>>))
    IN  UNION {
          { <<Ret(n), E(Lit(9))>>,
            <<E(Lit(8)), Ret(n), E(Lit(9))>>,
            \* if (c) { return n; 9 } 7
            <<E(If(c, <<Ret(n), E(Lit(9))>>)), E(Lit(7))>>,
            \* if (c) { if (true) { return n; n + 1 } 9 } else { return 5 } 7
            <<E(IfElse(c, <<Inner(n), E(Lit(9))>>, <<Ret(5)>>)), E(Lit(7))>>,
            \* let f = fn() { if (c) { if (true) { return n; n + 1 } 9 } 6 }; f() + 10
            <<LetStatement("f", Fn(<<>>, <<E(If(c, <<Inner(n), E(Lit(9))>>)), E(Lit(6))>>)),
              E(Infix("+", Call(Id("f"), <<>>), Lit(10)))>>,
            \* let f = fn() { return n; 9 }; f(); 7
            <<LetStatement("f", Fn(<<>>, <<Ret(n), E(Lit(9))>>)),
              E(Call(Id("f"), <<>>)), E(Lit(7))>>,
            \* let x = if (c) { return n }; 7
            <<LetStatement("x", If(c, <<Ret(n)>>)), E(Lit(7))>>,
            \* 1 + if (c) { return n }; 7
            <<E(Infix("+", Lit(1), If(c, <<Ret(n)>>))), E(Lit(7))>>,
            \* !if (c) { return n }; 7
            <<E(PrefixExpression("!", If(c, <<Ret(n)>>))), E(Lit(7))>>,
            \* fn(a) { a }(if (c) { return n }); 7
            <<E(Call(Fn(<<"a">>, <<E(Id("a"))>>), <<If(c, <<Ret(n)>>)>>)), E(Lit(7))>> }
          : n \in 0 .. MaxInt, c \in BoolLits }

\* Names bound in the program, in functions and in calls.
ScopePrograms ==
    UNION {
      { \* let x = n; let f = fn(a) { let b = m; x }; f(5); <last>
        <<LetStatement("x", Lit(n)),
          LetStatement("f", Fn(<<"a">>, <<LetStatement("b", Lit(m)), E(Id("x"))>>)),
          E(Call(Id("f"), <<Lit(5)>>)), E(Id(last))>>,
        \* let x = n; let f = fn(x) { let x = m; x }; f(5); x
        <<LetStatement("x", Lit(n)),
          LetStatement("f", Fn(<<"x">>, <<LetStatement("x", Lit(m)), E(Id("x"))>>)),
          E(Call(Id("f"), <<Lit(5)>>)), E(Id(last))>>,
        \* let x = n; let f = fn() { x }; let g = fn() { let x = m; f() }; g()
        <<LetStatement("x", Lit(n)),
          LetStatement("f", Fn(<<>>, <<E(Id("x"))>>)),
          LetStatement("g", Fn(<<>>, <<LetStatement("x", Lit(m)), E(Call(Id("f"), <<>>))>>)),
          E(Call(Id("g"), <<>>))>>,
        \* let mk = fn(x) { fn() { x } }; let x = m; mk(n)()
        <<LetStatement("mk", Fn(<<"x">>, <<E(Fn(<<>>, <<E(Id("x"))>>))>>)),
          LetStatement("x", Lit(m)),
          E(Call(Call(Id("mk"), <<Lit(n)>>), <<>>))>>,
        \* let f = fn() { x }; let x = n; f()
        <<LetStatement("f", Fn(<<>>, <<E(Id("x"))>>)),
          LetStatement("x", Lit(n)),
          E(Call(Id("f"), <<>>))>> }
      : n \in 0 .. MaxInt, m \in 3 .. 3 + MaxInt, last \in {"x", "a", "b"} }

\* Arrays handed to the builtins.
ArrayPrograms ==
    UNION {
      { <<LetStatement("a", ArrayLiteral(elems)),
          LetStatement("b", Call(Id(f), <<Id("a")>> \o extra)),
          E(Id(last))>>,
        <<LetStatement("a", ArrayLiteral(elems)),
          LetStatement("b", Call(Id("push"), <<Id("a"), Lit(8)>>)),
          LetStatement("c", Call(Id("push"), <<Id("a"), Lit(9)>>)),
          E(IndexExpression(Id(last), Lit(Len(elems))))>> }
      : elems \in {<<>>, <<Lit(1)>>, <<Lit(1), Lit(2)>>, <<Lit(1), Lit(2), Lit(0)>>},
        f \in builtinNames, extra \in {<<>>, <<Lit(7)>>}, last \in {"a", "b"} }

\* Objects compared with == and !=, which on objects that are neither two
\* integers nor two strings compare the pointers.
PointerPrograms ==
    LET NoValue == Call(Fn(<<>>, <<>>), <<>>)
    IN  UNION {
          { \* let x = if (true) { return if (true) { return 1 } };
            \* let y = fn(a) { a }(x); x == y
            <<LetStatement("x", If(Boolean(TRUE),
                  <<ReturnStatement(If(Boolean(TRUE), <<ReturnStatement(Lit(1))>>))>>)),
              LetStatement("y", Call(Fn(<<"a">>, <<E(Id("a"))>>), <<Id("x")>>)),
              E(Infix(op, Id("x"), Id(last)))>>,
            \* let x = fn() { 1 }; let y = fn() { 1 }; x == y
            <<LetStatement("x", Fn(<<>>, <<E(Lit(1))>>)),
              LetStatement("y", Fn(<<>>, <<E(Lit(1))>>)),
              E(Infix(op, Id("x"), Id(last)))>>,
            \* let x = []; let y = []; x == y
            <<LetStatement("x", ArrayLiteral(<<>>)), LetStatement("y", ArrayLiteral(<<>>)),
              E(Infix(op, Id("x"), Id(last)))>>,
            \* let x = fn() { }(); let y = 1; x == y
            <<LetStatement("x", NoValue), LetStatement("y", Lit(1)),
              E(Infix(op, Id("x"), Id(last)))>>,
            <<LetStatement("x", Lit(1)), LetStatement("y", NoValue),
              E(Infix(op, Id("x"), Id(last)))>>,
            <<LetStatement("x", Id("len")), LetStatement("y", Id("len")),
              E(Infix(op, Id("x"), Id(last)))>> }
          : op \in {"==", "!=", "+"}, last \in {"x", "y"} }

\* Calls of puts, and calls with fewer and with more arguments than the
\* function has parameters.
PutsPrograms ==
    LET NoValue == Call(Fn(<<>>, <<>>), <<>>)
    IN  { \* puts(1, fn() { }())
          <<E(Call(Id("puts"), <<Lit(1), NoValue>>))>>,
          <<E(Call(Id("puts"), <<Lit(1), NoValue, Lit(2)>>))>>,
          \* puts([fn() { }()])
          <<E(Call(Id("puts"), <<ArrayLiteral(<<NoValue>>)>>))>>,
          \* puts(1, [2, [3]], fn(a) { a }, puts)
          <<E(Call(Id("puts"), <<Lit(1), ArrayLiteral(<<Lit(2), ArrayLiteral(<<Lit(3)>>)>>),
                                 Fn(<<"a">>, <<E(Id("a"))>>), Id("puts")>>))>>,
          \* puts(2, if (true) { return 1 })
          <<E(Call(Id("puts"), <<Lit(2), If(Boolean(TRUE), <<ReturnStatement(Lit(1))>>)>>))>>,
          \* puts(2, if (true) { return fn() { }() })
          <<E(Call(Id("puts"), <<Lit(2), If(Boolean(TRUE), <<ReturnStatement(NoValue)>>)>>))>>,
          \* puts(fn() { -; })
          <<E(Call(Id("puts"),
                   <<Fn(<<>>, <<E(PrefixExpression("-", NilExpression))>>)>>))>>,
          <<E(Call(Id("puts"), <<>>))>>,
          \* fn(a, b) { a }(1), fn(a, b) { a }() and fn(a) { a }(1, 2)
          <<E(Call(Fn(<<"a", "b">>, <<E(Id("a"))>>), <<Lit(1)>>))>>,
          <<E(Call(Fn(<<"a", "b">>, <<E(Id("a"))>>), <<>>))>>,
          <<E(Call(Fn(<<"a">>, <<E(Id("a"))>>), <<Lit(1), Lit(2)>>))>>,
          \* -; and a statement without an expression
          <<E(PrefixExpression("-", NilExpression))>>,
          <<E(Lit(1)), E(NilExpression)>>,
          \* let = 1; as parsed: a nil *ast.LetStatement and the statement 1
          <<NilLetStatement, E(Lit(1))>>,
          <<E(Lit(2)), NilLetStatement>>,
          \* fn(1) { 1 }(2) and let f = fn(1, x) { x }; f(2, 0)
          <<E(Call(Fn(<<"1">>, <<E(Lit(1))>>), <<Lit(2)>>))>>,
          <<LetStatement("f", Fn(<<"1", "x">>, <<E(Id("x"))>>)),
            E(Call(Id("f"), <<Lit(2), Lit(0)>>))>> }

EvalPrograms ==
    InfixPrograms \cup PrefixPrograms \cup IfPrograms \cup ReturnPrograms
    \cup ScopePrograms \cup ArrayPrograms \cup PointerPrograms \cup PutsPrograms

\* Programs over hash literals, each with the orders in which the maps
\* may be ranged over.
HashInputs ==
    LET NoValue == Call(Fn(<<>>, <<>>), <<>>)
        Two(k1, k2) == HashLiteral(<< <<k1, Lit(10)>>, <<k2, Lit(20)>> >>)
        Input(p, ranges) == [program |-> p, ranges |-> ranges]
    IN  UNION {
          { \* {k1: 10, k2: 20}[k1]
            Input(<<E(IndexExpression(Two(k1, k2), k1))>>, <<order>>),
            \* let x = {k1: 10, k2: 20}; let y = {k1: 10, k2: 20}; x == y
            Input(<<LetStatement("x", Two(k1, k2)), LetStatement("y", Two(k1, k2)),
                    E(Infix("==", Id("x"), Id(last)))>>, <<order, second>>),
            \* puts({k1: {k1: 10, k2: 20}})
            Input(<<E(Call(Id("puts"), <<HashLiteral(<< <<k1, Two(k1, k2)>> >>)>>))>>,
                  << <<1>>, order >>),
            \* puts({k1: fn() { }(), k2: 1})
            Input(<<E(Call(Id("puts"),
                           <<HashLiteral(<< <<k1, NoValue>>, <<k2, Lit(1)>> >>)>>))>>,
                  <<order>>),
            \* {fn() { }(): 1, k2: puts(2)}
            Input(<<E(HashLiteral(<< <<NoValue, Lit(1)>>,
                                     <<k2, Call(Id("puts"), <<Lit(2)>>)>> >>))>>,
                  <<order>>),
            \* {[k1]: 1, k2: puts(2)}
            Input(<<E(HashLiteral(<< <<ArrayLiteral(<<k1>>), Lit(1)>>,
                                     <<k2, Call(Id("puts"), <<Lit(2)>>)>> >>))>>,
                  <<order>>),
            \* {k1: 10, k2: 20}[fn() { }()]
            Input(<<E(IndexExpression(Two(k1, k2), NoValue))>>, <<order>>) }
          : k1 \in KeyLiterals, k2 \in {Lit(1), StringLiteral("a")},
            order \in Orders(2), second \in Orders(2), last \in {"x", "y"} }
        \cup { Input(<<E(Infix("==", HashLiteral(<<>>), HashLiteral(<<>>)))>>,
                     << <<>>, <<>> >>) }

EvalInputs == {[program |-> p, ranges |-> <<>>] : p \in EvalPrograms} \cup HashInputs

\* Eval(program, object.NewEnvironment())
ApplyEval ==
    \E input \in EvalInputs :
        /\ applied.fn = "none"
        /\ applied' = [fn |-> "Eval", program |-> input.program,
                       obj |-> EvalRanging(input.program, input.ranges).obj,
                       st |-> EvalRanging(input.program, input.ranges).st]
        /\ OnlyApplied

\* The programs the older copy of the package is applied to: literals,
\* operators and if expressions.
Part004Programs == InfixPrograms \cup PrefixPrograms \cup IfPrograms

\* Eval(program, object.NewEnvironment()) of the older copy of the package
ApplyEvalPart004 ==
    \E p \in Part004Programs :
        \E r \in {evalProgram(p, 1, [NewState EXCEPT !.part004 = TRUE])} :
            /\ applied.fn = "none"
            /\ applied' = [fn |-> "Eval(part_004)", program |-> p,
                           obj |-> r.obj, st |-> r.st]
            /\ OnlyApplied

EvalNext ==
    \/ ApplyEval
    \/ ApplyEvalPart004

EvalSpec == Init /\ [][EvalNext]_vars

\* Eval of hash[index], a hash literal indexed by a literal
ApplyEvalIndexExpression ==
    \E hash \in HashLiterals, index \in KeyLiterals :
        \E order \in Orders(Len(hash.Pairs)) :
            /\ applied.fn = "none"
            /\ applied' =
                  [fn |-> "evalIndexExpression", hash |-> hash, index |-> index,
                   order |-> order,
                   out |-> Eval(IndexExpression(hash, index), 1,
                                [NewState EXCEPT !.ranges = <<order>>]).obj]
            /\ OnlyApplied

HashNext ==
    \/ ApplyHashKey
    \/ ApplyEvalIndexExpression

HashSpec == Init /\ [][HashNext]_vars

(***************************************************************************)
(* ast: String() called on programs                                        *)
(***************************************************************************)
\* Programs of one or two statements over hash literals, index expressions
\* and operators.
PrintedPrograms ==
    {<<E(hash)>> : hash \in HashLiterals}
    \cup {<<E(IndexExpression(hash, Lit(1))), ReturnStatement(Infix("+", Lit(1), Id("x")))>> :
            hash \in HashLiterals}
    \cup {<<E(PrefixExpression("!", Boolean(TRUE))), E(Infix("*", Id("a"), Lit(n)))>> :
            n \in 0 .. MaxInt}
    \* two hash literals in one expression
    \cup {<<E(Infix("+", HashLiteral(<< <<Lit(1), Lit(10)>>, <<Lit(2), Lit(20)>> >>),
                    HashLiteral(<< <<Lit(3), Lit(30)>>, <<Lit(4), Lit(40)>> >>)))>>}
    \* the nodes parsed from `!`, `-`, `1 +` and `010`
    \cup {<<E(PrefixExpression(op, NilExpression))>> : op \in {"!", "-"}}
    \cup {<<E(Lit(1)), E(Infix("+", Lit(1), NilExpression))>>,
          <<E(IntegerLiteralOf(TInt(<<0, 1, 0>>), 8))>>}
    \* statements without an expression, and the nil *LetStatement
    \cup {<<E(NilExpression), ReturnStatement(NilExpression)>>,
          <<LetStatement("x", NilExpression)>>, <<E(Lit(1)), NilLetStatement>>}
    \* let f = fn(a, b) { if (a) { return [b, 1] } else { b } }; f(true, "s")
    \cup {<<LetStatement("f", Fn(<<"a", "b">>,
                <<E(IfElse(Id("a"), <<ReturnStatement(ArrayLiteral(<<Id("b"), Lit(1)>>))>>,
                           <<E(Id("b"))>>))>>)),
            E(Call(Id("f"), <<Boolean(TRUE), StringLiteral("s")>>))>>}
    \cup {<<E(If(Boolean(c), <<E(Lit(1)), E(Lit(2))>>))>> : c \in BOOLEAN}
    \* fn(1) { }   and   fn(1, x) { x } : parseFunctionParameters makes an
    \* Identifier of whatever token stands in the list
    \cup {<<E(Fn(<<"1">>, <<>>))>>, <<E(Fn(<<"1", "x">>, <<E(Id("x"))>>))>>}

\* program.String(), called twice on one program
ApplyString ==
    \E statements \in PrintedPrograms :
        \E first \in ProgramString(statements), second \in ProgramString(statements) :
            /\ applied.fn = "none"
            /\ applied' = [fn |-> "String", Statements |-> statements,
                           out |-> << first, second >>]
            /\ OnlyApplied

AstSpec == Init /\ [][ApplyString]_vars

(***************************************************************************)
(* Properties of the stack discipline                                      *)
(***************************************************************************)
Last(s) == s[Len(s)]

\* C1: when Run() returns no error from a program that compiled, the stack
\* pointer is back at 0: every value pushed while a top-level statement
\* executed has been popped again.
C1_SpZeroAfterRun == status = "done" => sp = 0

\* The instructions whose case ends with a single pop.
PopInstructions == {OpPop, OpJumpNotTruthy, OpSetGlobal}

\* The quotient of Go's a / b: q * b + r = a, |r| < |b|, r signed like a.
Abs(n) == IF n < 0 THEN -n ELSE n

Quotient(a, b) ==
    CHOOSE q \in -Abs(a) .. Abs(a) :
        \E r \in -Abs(a) .. Abs(a) :
            /\ a = q * b + r
            /\ Abs(r) < Abs(b)
            /\ r = 0 \/ ((r < 0) = (a < 0))

Undefined == [type |-> "undefined", value |-> 0]

BooleanOf(b) == IF b THEN True ELSE False

\* The value of a op b on two integers; none for a division by zero.
IntegerInfixValue(op, a, b) ==
    CASE op = "+" -> Integer(a + b)
      [] op = "-" -> Integer(a - b)
      [] op = "*" -> Integer(a * b)
      [] op = "/" -> IF b = 0 THEN Undefined ELSE Integer(Quotient(a, b))
      [] op = ">" -> BooleanOf(a > b)
      [] op = "<" -> BooleanOf(a < b)
      [] op = "==" -> BooleanOf(a = b)
      [] op = "!=" -> BooleanOf(a # b)
      [] OTHER -> Undefined

\* The value the language gives a closed expression over literals, prefix
\* and infix operators and conditionals; Undefined where the expression has
\* no value (an operator applied to operands it is not defined on) or lies
\* outside these forms.
RECURSIVE ValueOf(_)
ValueOf(e) ==
    CASE e.kind = "IntegerLiteral" -> Integer(e.Value)
      [] e.kind = "Boolean" -> BooleanOf(e.Value)
      [] e.kind = "PrefixExpression" ->
            LET r == ValueOf(e.Right)
            IN  IF r = Undefined THEN Undefined
                ELSE IF e.Operator = "!"
                     THEN BooleanOf(r = False \/ r = Null)
                ELSE IF e.Operator = "-" /\ r.type = INTEGER_OBJ
                     THEN Integer(-r.value)
                ELSE Undefined
      [] e.kind = "InfixExpression" ->
            LET l == ValueOf(e.Left)
                r == ValueOf(e.Right)
            IN  IF l = Undefined \/ r = Undefined THEN Undefined
                ELSE IF l.type = INTEGER_OBJ /\ r.type = INTEGER_OBJ
                     THEN IntegerInfixValue(e.Operator, l.value, r.value)
                ELSE IF l.type = INTEGER_OBJ \/ r.type = INTEGER_OBJ
                     THEN Undefined
                ELSE IF e.Operator = "==" THEN BooleanOf(l = r)
                ELSE IF e.Operator = "!=" THEN BooleanOf(l # r)
                ELSE Undefined
      [] e.kind = "IfExpression" ->
            LET c == ValueOf(e.Condition)
                branch == IF c \in {False, Null} THEN e.Alternative
                          ELSE e.Consequence
            IN  IF c = Undefined THEN Undefined
                ELSE IF c \in {False, Null} /\ ~e.HasAlternative THEN Null
                ELSE IF branch = <<>> THEN Undefined
                ELSE IF \E k \in 1 .. Len(branch) :
                            \/ branch[k].kind # "ExpressionStatement"
                            \/ ValueOf(branch[k].Expression) = Undefined
                     THEN Undefined
                ELSE ValueOf(Last(branch).Expression)
      [] OTHER -> Undefined

\* The program ends in an expression statement whose value ValueOf gives.
EndsInExpression(p) ==
    /\ p # <<>>
    /\ Last(p).kind = "ExpressionStatement"
    /\ ValueOf(Last(p).Expression) # Undefined

\* C2: immediately after a pop, stack[sp], which LastPoppedStackElem()
\* returns, is the value just popped; and after a successful Run() of a
\* program ending in an expression statement it is that expression's value.
C2_LastPoppedIsPopped ==
    /\ [][(Fetching(PopInstructions) /\ status' = "running") =>
             (sp' = sp - 1 /\ LastPoppedStackElem' = StackAt(stack, sp - 1))]_vars
    /\ [](status = "done" /\ EndsInExpression(program) =>
             LastPoppedStackElem = ValueOf(Last(program).Expression))

\* Run() has returned from `if (1 < 2) { 1; 2 } else { 10 }; 3333;`, whose
\* pops came from OpJumpNotTruthy and OpPop.
C2_PoppedValueSeen ==
    /\ status = "done"
    /\ program = <<E(IfElse(Infix("<", Lit(1), Lit(2)),
                            <<E(Lit(1)), E(Lit(2))>>, <<E(Lit(10))>>)),
                   E(Lit(3333))>>
    /\ LastPoppedStackElem = Integer(3333)

(***************************************************************************)
(* Properties of operators and conditionals                                *)
(***************************************************************************)
\* The integer an operand of IntOperands denotes.
IntOf(e) == IF e.kind = "IntegerLiteral" THEN e.Value ELSE -e.Right.Value

\* The program is the single statement `a op b` on two integer operands.
IsIntegerInfix(p) ==
    /\ Len(p) = 1
    /\ p[1].kind = "ExpressionStatement"
    /\ p[1].Expression.kind = "InfixExpression"
    /\ p[1].Expression.Left \in IntOperands
    /\ p[1].Expression.Right \in IntOperands
    /\ ~(p[1].Expression.Operator = "/" /\ IntOf(p[1].Expression.Right) = 0)

\* C3: for integers a and b (b non-zero for /) and each of + - * / > < == !=,
\* the run of `a op b` succeeds and leaves the value of a op b as the last
\* popped element; `a < b` is compiled as b, then a, then OpGreaterThan.
C3_InfixOnIntegers ==
    IsIntegerInfix(program) =>
        LET e == program[1].Expression
        IN  /\ status \in {"running", "done"}
            /\ status = "done" =>
                  LastPoppedStackElem =
                      IntegerInfixValue(e.Operator, IntOf(e.Left), IntOf(e.Right))
            /\ (e.Operator = "<" /\ e.Left \in IntLits /\ e.Right \in IntLits) =>
                  /\ constants = <<Integer(IntOf(e.Right)), Integer(IntOf(e.Left))>>
                  /\ Instructions(frames[1]) =
                        <<OpConstant, 0, 0, OpConstant, 0, 1, OpGreaterThan, OpPop>>

\* `1 < 2` has run and left true.
C3_LessThanRan ==
    /\ status = "done"
    /\ program = <<E(Infix("<", Lit(1), Lit(2)))>>
    /\ LastPoppedStackElem = True

\* The conditions of Conditions that are not truthy: false, 1 > 2, the Null
\* of an if without else whose condition is false, and !0.
NotTruthyConditions ==
    { Boolean(FALSE), Infix(">", Lit(1), Lit(2)),
      If(Boolean(FALSE), <<E(Lit(10))>>), PrefixExpression("!", Lit(0)) }

IsIfWithoutElse(p) ==
    /\ Len(p) = 1
    /\ p[1].kind = "ExpressionStatement"
    /\ p[1].Expression.kind = "IfExpression"
    /\ ~p[1].Expression.HasAlternative
    /\ p[1].Expression.Condition \in NotTruthyConditions

\* C4: the run of an if expression without else whose condition is not
\* truthy succeeds and yields Null: `if (false) { 10 }` leaves the Null
\* singleton as the last popped element.
C4_IfWithoutElseIsNull ==
    IsIfWithoutElse(program) =>
        /\ status \in {"running", "done"}
        /\ status = "done" => LastPoppedStackElem = Null

\* `if (false) { 10 }` has run.
C4_IfFalseRan ==
    /\ status = "done"
    /\ program = <<E(If(Boolean(FALSE), <<E(Lit(10))>>))>>
    /\ LastPoppedStackElem = Null

\* C5: the instructions required of the compiler for `if (true) { 10 };
\* 3333;` are exactly OpTrue, OpJumpNotTruthy 10, OpConstant 0, OpJump 11,
\* OpNull, OpPop, OpConstant 1, OpPop at the byte offsets 0, 1, 4, 7, 10, 11,
\* 12, 15: the instructions TestConditionals expects of the compiler for
\* this input are these.
C5_TestExpectsJumpOverNull ==
    (applied.fn = "runCompilerTests" /\ applied.input = IfTrueThen3333) =>
        LET ins == applied.expected
            At(offset) == ins[offset + 1]
        IN  /\ Len(ins) = 16
            /\ At(0) = OpTrue
            /\ At(1) = OpJumpNotTruthy /\ ReadUint16(ins, 2) = 10
            /\ At(4) = OpConstant /\ ReadUint16(ins, 5) = 0
            /\ At(7) = OpJump /\ ReadUint16(ins, 8) = 11
            /\ At(10) = OpNull
            /\ At(11) = OpPop
            /\ At(12) = OpConstant /\ ReadUint16(ins, 13) = 1
            /\ At(15) = OpPop

(***************************************************************************)
(* Properties of calls and closures                                        *)
(***************************************************************************)
\* The value of the integer literal e.
N(e) == e.Value

\* C6: a call of a closure returns to its caller: the callee slot, the
\* arguments and the locals are gone, the return value lies one slot above
\* where the stack stood before the callee was pushed, the slots below are
\* unchanged and the caller resumes behind its OpCall.  So `1 + fn() { 5
\* }();` runs without failure and yields 6, and `let f = fn(a) { let b = a
\* + x; let c = b * 2; c - a }; y + f(z);` yields y + ((z + x) * 2 - z).
C6_CallReturnsToCaller ==
    /\ program = <<E(Infix("+", Lit(1), Call(Fn(<<>>, <<E(Lit(5))>>), <<>>)))>> =>
          /\ status \in {"running", "done"}
          /\ status = "done" => LastPoppedStackElem = Integer(6)
    /\ \A x \in IntLits, y \in IntLits, z \in IntLits :
          program = Locals(x, y, z) =>
             /\ status \in {"running", "done"}
             /\ status = "done" =>
                   LastPoppedStackElem = Integer(N(y) + ((N(z) + N(x)) * 2 - N(z)))

\* C7: the i-th name a nested function literal captures is read in its body
\* by OpGetFree i and the body sees the value the outer binding had when the
\* closure was created: in `let newAdder = fn(x) { fn(y) { x + y } }; let
\* addTwo = newAdder(a); addTwo(b);` the inner body is OpGetFree 0,
\* OpGetLocal 0, OpAdd, OpReturnValue and the run yields a + b.
C7_ClosureCapturesInOrder ==
    \A a \in IntLits, b \in IntLits \cup {Lit(3)} :
        program = NewAdder(a, b) =>
           /\ status \in {"running", "done"}
           /\ constants[1].Instructions =
                 <<OpGetFree, 0, OpGetLocal, 0, OpAdd, OpReturnValue>>
           /\ status = "done" => LastPoppedStackElem = Integer(N(a) + N(b))

(***************************************************************************)
(* Properties of bindings and of the globals store                         *)
(***************************************************************************)
\* C8: the instruction reading a let-bound name (OpGetGlobal i, OpGetLocal i)
\* never executes before the instruction storing that binding (OpSetGlobal i,
\* OpSetLocal i of the same call) has executed.  Parameters, the locals
\* below NumParameters, are stored by the call itself.
C8_GetNeverBeforeSet ==
    [][/\ (Fetching({OpGetGlobal}) /\ sp' = sp + 1) =>
             Operand16 \in DOMAIN stored
       /\ (Fetching({OpGetLocal}) /\ sp' = sp + 1
             /\ Operand8 >= CurrentFrame.cl.Fn.NumParameters) =>
             Operand8 \in calls[Len(calls)].locals
      ]_vars

\* C9: with one globals store handed from VM to VM by NewWithGlobalsStore,
\* the store holds at every index the value OpSetGlobal stored there last,
\* whichever VM stored it; OpGetGlobal i pushes that value; and a step of
\* Run() changes no entry of the store but the one an OpSetGlobal names.
C9_GlobalsStoreShared ==
    /\ [](/\ DOMAIN globals = DOMAIN stored
          /\ \A i \in DOMAIN stored : GlobalAt(globals, i) = stored[i])
    /\ [][(Fetching({OpGetGlobal}) /\ status' = "running"
             /\ Operand16 \in DOMAIN stored) =>
             StackAt(stack', sp' - 1) = stored[Operand16]]_vars
    /\ [][status = "running" =>
             \A i \in DOMAIN globals \cup DOMAIN globals' :
                GlobalAt(globals', i) # GlobalAt(globals, i) =>
                   (Fetching({OpSetGlobal}) /\ i = Operand16)]_vars

\* A first VM ran OpConstant 0, OpSetGlobal 0 on a pool holding 5; a second
\* VM, handed the store of the first, ran OpGetGlobal 0, OpPop and popped 5.
C9_LaterVMReadGlobal ==
    /\ lines = 2
    /\ program = <<>>
    /\ status = "done"
    /\ Ins = Make(OpGetGlobal, <<0>>) \o Make(OpPop, <<>>)
    /\ constants = <<>>
    /\ stored = (0 :> Integer(5))
    /\ GlobalAt(globals, 0) = Integer(5)
    /\ LastPoppedStackElem = Integer(5)

\* A comparison is about to execute on two operands of which exactly one
\* is an Integer.
MixedComparison ==
    /\ Fetching({OpEqual, OpNotEqual, OpGreaterThan})
    /\ sp >= 2
    /\ StackAt(stack, sp - 1).type # NIL
    /\ StackAt(stack, sp - 2).type # NIL
    /\ (StackAt(stack, sp - 1).type = INTEGER_OBJ)
          # (StackAt(stack, sp - 2).type = INTEGER_OBJ)

\* C10: OpEqual, OpNotEqual or OpGreaterThan on operands of which exactly
\* one is an Integer ends the run with an error returned from Run(): no
\* result is pushed and no later instruction executes.
C10_MixedComparisonIsError ==
    [][MixedComparison =>
          /\ status' = "error"
          /\ sp' = sp - 2
          /\ ~CanFetch']_vars

(***************************************************************************)
(* Properties of the operators on values that are not integers             *)
(***************************************************************************)
\* A comparison by OpEqual or OpNotEqual is about to execute on two operands
\* that are Booleans, Nulls or Strings.
NonIntegerEquality ==
    /\ Fetching({OpEqual, OpNotEqual})
    /\ sp >= 2
    /\ StackAt(stack, sp - 1).type \in {BOOLEAN_OBJ, NULL_OBJ, STRING_OBJ}
    /\ StackAt(stack, sp - 2).type \in {BOOLEAN_OBJ, NULL_OBJ, STRING_OBJ}

\* C11: for two non-Integer operands OpEqual pushes True exactly when they
\* are equal in value (the same Boolean, both Null, or two Strings with the
\* same content, even when they are distinct objects), and OpNotEqual pushes
\* the opposite Boolean.
C11_EqualByValue ==
    [][NonIntegerEquality =>
          LET left == StackAt(stack, sp - 2)
              right == StackAt(stack, sp - 1)
              equal == left.type = right.type /\ left.value = right.value
          IN  /\ status' = "running"
              /\ sp' = sp - 1
              /\ StackAt(stack', sp' - 1) =
                    BooleanOf(IF CurOp = OpEqual THEN equal ELSE ~equal)]_vars

\* An arithmetic instruction is about to execute on two Strings.
StringArithmetic ==
    /\ Fetching({OpAdd, OpSub, OpMul, OpDiv})
    /\ sp >= 2
    /\ StackAt(stack, sp - 1).type = STRING_OBJ
    /\ StackAt(stack, sp - 2).type = STRING_OBJ

\* C12: OpAdd on two Strings pushes the String made of the left operand's
\* content followed by the right operand's; OpSub, OpMul and OpDiv on two
\* Strings fail with an `unknown string operator` error.
C12_StringArithmetic ==
    [][StringArithmetic =>
          LET left == StackAt(stack, sp - 2)
              right == StackAt(stack, sp - 1)
              result == StackAt(stack', sp' - 1)
          IN  IF CurOp = OpAdd
              THEN /\ status' = "running"
                   /\ sp' = sp - 1
                   /\ result.type = STRING_OBJ
                   /\ result.value = left.value \o right.value
              ELSE /\ status' = "error"
                   /\ err' = "unknown string operator"]_vars

\* The program is the single statement `!!e`, e an expression with a value.
IsDoubleBang(p) ==
    /\ Len(p) = 1
    /\ p[1].kind = "ExpressionStatement"
    /\ p[1].Expression.kind = "PrefixExpression"
    /\ p[1].Expression.Operator = "!"
    /\ p[1].Expression.Right.kind = "PrefixExpression"
    /\ p[1].Expression.Right.Operator = "!"
    /\ ValueOf(p[1].Expression.Right.Right) # Undefined

\* C13: for every value v OpBang pushes the False singleton exactly when v
\* is truthy in the sense of OpJumpNotTruthy (isTruthy) and the True
\* singleton otherwise; so `!!e` yields the Boolean equal to the truthiness
\* of the value of e.
C13_BangNegatesTruthiness ==
    /\ [][(Fetching({OpBang}) /\ sp >= 1) =>
             /\ status' = "running"
             /\ sp' = sp
             /\ StackAt(stack', sp' - 1) =
                   (IF isTruthy(StackAt(stack, sp - 1)) THEN False ELSE True)]_vars
    /\ [](IsDoubleBang(program) =>
             /\ status \in {"running", "done"}
             /\ status = "done" =>
                   LastPoppedStackElem =
                       BooleanOf(ValueOf(program[1].Expression.Right.Right)
                                     \notin {False, Null}))

\* `!!5` has run and left true.
C13_DoubleBangRan ==
    /\ program = <<E(PrefixExpression("!", PrefixExpression("!", Lit(5))))>>
    /\ status = "done"
    /\ LastPoppedStackElem = True

(***************************************************************************)
(* Properties of the dispatch                                              *)
(***************************************************************************)
\* C14: when the VM fetches an opcode byte it has no case for, or one that
\* is not a defined opcode, Run() returns an error and stops; it never
\* skips the byte and goes on to decode the bytes behind it.
C14_BadOpcodeIsError ==
    [][(CanFetch /\ (CurOp \notin HandledOpcodes \/ CurOp \notin DefinedOpcodes)) =>
          /\ status' = "error"
          /\ ~CanFetch'
          /\ frames'[Len(frames')].ip # OpAddr]_vars

(***************************************************************************)
(* Properties of the parser                                                *)
(***************************************************************************)
\* C15: for every finite input, well formed or not, and whether or not its
\* last statement is followed by a semicolon, a call of ParseProgram
\* terminates: once started it returns a Program.
C15_ParseProgramTerminates ==
    (parser.pc = "ParseProgram") ~> (parser.pc = "returned")

\* The precedence levels as the language states them: == != below < >
\* below + - below * /.
Level(op) ==
    CASE op \in {"==", "!="} -> 1
      [] op \in {"<", ">"} -> 2
      [] op \in {"+", "-"} -> 3
      [] op \in {"*", "/"} -> 4

\* The tree of x1 op1 x2 ... xn: the last operator applied is the rightmost
\* one of the lowest level, over the trees of what stands left and right
\* of it.
RECURSIVE Grouped(_, _)
Grouped(xs, ops) ==
    IF ops = <<>> THEN xs[1]
    ELSE LET lowest == {k \in 1 .. Len(ops) :
                           \A j \in 1 .. Len(ops) : Level(ops[k]) <= Level(ops[j])}
             k == CHOOSE i \in lowest : \A j \in lowest : j <= i
         IN  Infix(ops[k],
                   Grouped(SubSeq(xs, 1, k), SubSeq(ops, 1, k - 1)),
                   Grouped(SubSeq(xs, k + 1, Len(xs)), SubSeq(ops, k + 1, Len(ops))))

\* C16: an expression of operands joined by infix operators parses, without
\* errors, to the tree that groups higher levels first and equal levels
\* left to right; an operand with a prefix operator, and a call with its
\* argument list, stay whole as operands.
C16_PrecedenceGrouping ==
    parser.pc = "returned" =>
        \A c \in Chains :
            parser.p.toks = ChainTokens(c.xs, c.ops) =>
                /\ parser.Statements = <<E(Grouped(c.xs, c.ops))>>
                /\ parser.p.errors = <<>>

\* a + b * c + d / e - f has been parsed to (((a + (b * c)) + (d / e)) - f).
C16_MixedChainParsed ==
    /\ parser.pc = "returned"
    /\ parser.p.toks = ChainTokens(<<Id("a"), Id("b"), Id("c"), Id("d"), Id("e"), Id("f")>>,
                                   <<"+", "*", "+", "/", "-">>)
    /\ parser.Statements =
          <<E(Infix("-",
                    Infix("+", Infix("+", Id("a"), Infix("*", Id("b"), Id("c"))),
                               Infix("/", Id("d"), Id("e"))),
                    Id("f")))>>

\* C17: `myArray[1 + 1]` parses without errors to an index expression whose
\* index is 1 + 1, and `a * [1, 2, 3, 4][b * c] * d` to
\* ((a * ([1, 2, 3, 4][(b * c)])) * d): the bracket binds tighter than the
\* products around it.
C17_IndexExpressionParsed ==
    LET Index(left, index) ==
            [kind |-> "IndexExpression", Left |-> left, Index |-> index]
        Array(elements) == [kind |-> "ArrayLiteral", Elements |-> elements]
        expected(toks) ==
            IF toks[1] = TIdent("myArray")
            THEN Index(Id("myArray"), Infix("+", Lit(1), Lit(1)))
            ELSE Infix("*",
                       Infix("*", Id("a"),
                                  Index(Array(<<Lit(1), Lit(2), Lit(3), Lit(4)>>),
                                        Infix("*", Id("b"), Id("c")))),
                       Id("d"))
    IN  (parser.pc = "returned" /\ parser.p.toks \in IndexSources) =>
            /\ parser.p.errors = <<>>
            /\ parser.Statements = <<E(expected(parser.p.toks))>>

(***************************************************************************)
(* Properties of the instruction encoding                                  *)
(***************************************************************************)
\* C18: ReadOperands on the operand bytes of Make(op, operands) returns
\* those operands and the number of bytes behind the opcode byte; a two-byte
\* operand is stored most significant byte first.
C18_ReadOperandsInvertsMake ==
    applied.fn = "ReadOperands" =>
        /\ applied.out.operands = applied.operands
        /\ applied.out.offset = Len(applied.ins) - 1
        /\ applied.ins[1] = applied.op
        /\ (OperandWidth(applied.op) # <<>> /\ Head(OperandWidth(applied.op)) = 2) =>
              /\ applied.ins[2] = applied.operands[1] \div 256
              /\ applied.ins[3] = applied.operands[1] % 256

\* OpConstant 65534 has been made as 0 255 254 and read back.
C18_ConstantReadBack ==
    /\ applied.fn = "ReadOperands"
    /\ applied.op = OpConstant
    /\ applied.ins = <<OpConstant, 255, 254>>
    /\ applied.out = [operands |-> <<65534>>, offset |-> 2]

(***************************************************************************)
(* Properties of hash keys                                                 *)
(***************************************************************************)
\* The entries of the literal indexed last whose key evaluates to an
\* object of the type and value of the index.
EqualKeys ==
    {i \in 1 .. Len(applied.hash.Pairs) :
        LET key == EvalLiteral(applied.hash.Pairs[i][1])
            index == EvalLiteral(applied.index)
        IN  key.type = index.type /\ key.value = index.value}

\* Two keys of the same type and value have the same HashKey; Integer and
\* Boolean keys that differ in type or in value have different HashKeys.
HashKeysAgree ==
    applied.fn = "HashKey" =>
        LET a == applied.a
            b == applied.b
        IN  /\ (a.type = b.type /\ a.value = b.value) =>
                  applied.out[1] = applied.out[2]
            /\ ( /\ {a.type, b.type} \subseteq {INTEGER_OBJ, BOOLEAN_OBJ}
                 /\ (a.type # b.type \/ a.value # b.value) ) =>
                  applied.out[1] # applied.out[2]

\* C19 as stated: hash keys agree, and indexing a hash literal with a key
\* equal to the key of one of its pairs returns the value of that pair,
\* whichever pair it is; with a key equal to none it returns Null.
C19_IndexReturnsValueOfThatPair ==
    /\ HashKeysAgree
    /\ applied.fn = "evalIndexExpression" =>
          /\ \A i \in EqualKeys : applied.out = EvalLiteral(applied.hash.Pairs[i][2])
          /\ EqualKeys = {} => applied.out = Null

\* C19: hash keys agree, and indexing a hash literal with a key equal to
\* the keys of some of its pairs returns the value of one of those pairs,
\* the one evaluated last; with a key equal to none it returns Null.
C19_IndexReturnsValueOfEqualKey ==
    /\ HashKeysAgree
    /\ applied.fn = "evalIndexExpression" =>
          /\ \A i \in EqualKeys :
                (\A j \in EqualKeys :
                    \E m, n \in 1 .. Len(applied.order) :
                        applied.order[m] = j /\ applied.order[n] = i /\ m <= n) =>
                    applied.out = EvalLiteral(applied.hash.Pairs[i][2])
          /\ EqualKeys # {} =>
                \E i \in EqualKeys : applied.out = EvalLiteral(applied.hash.Pairs[i][2])
          /\ EqualKeys = {} => applied.out = Null

\* {1: 10, "1": 20, 1: "a"}[1] has been evaluated with the third pair last.
C19_DuplicateKeyIndexed ==
    /\ applied.fn = "evalIndexExpression"
    /\ applied.hash = HashLiteral(<< <<Lit(1), Lit(10)>>, <<StringLiteral("1"), Lit(20)>>,
                                     <<Lit(1), StringLiteral("a")>> >>)
    /\ applied.index = Lit(1)
    /\ applied.order = <<2, 1, 3>>
    /\ applied.out = String("a", 0)

\* The FNV-1a hashes of "a" and of "true" are af63dc4c8601ec8c and
\* 5b5c98ef514dbfa5.
FnvValues ==
    /\ Write64a(offset64, Bytes("a")) = <<60556, 34305, 56396, 44899>>
    /\ Write64a(offset64, Bytes("true")) = <<49061, 20813, 39151, 23388>>
    /\ Write64a(offset64, Bytes("ab")) = <<39018, 46405, 17415, 2204>>

(***************************************************************************)
(* Properties of the AST printer                                           *)
(***************************************************************************)
\* C20: String() called twice on the same program returns the same text,
\* hash literals of two or more pairs included.
C20_StringIsDeterministic ==
    applied.fn = "String" => applied.out[1] = applied.out[2]

(***************************************************************************)
(* Properties of integer division                                          *)
(***************************************************************************)
\* C25: OpDiv on two Integers of which the right one is 0 ends the run with
\* an error returned from Run(): the process does not crash and no result
\* is pushed.
C25_DivideByZeroIsError ==
    [][( /\ CanFetch
         /\ CurOp = OpDiv
         /\ StackAt(stack, sp - 1) = Integer(0)
         /\ StackAt(stack, sp - 2).type = INTEGER_OBJ ) =>
          /\ status' = "error"
          /\ sp' = sp - 2]_vars

(***************************************************************************)
(* Properties of conditionals                                              *)
(***************************************************************************)
\* The number of bytes a list of statements compiles to on its own.
CodeLen(statements) ==
    Len(Bytecode(CompileAll(statements, NewCompiler(NewSymbolTable))).Instructions)

\* The bytes of a branch: those of its statements, less the OpPop of a
\* last expression statement.
BranchLen(block) ==
    IF block # <<>> /\ Last(block).kind = "ExpressionStatement"
    THEN CodeLen(block) - 1
    ELSE CodeLen(block)

\* The program run is the first line and starts with an if expression.
StartsWithIf ==
    /\ lines = 1
    /\ program # <<>>
    /\ program[1].kind = "ExpressionStatement"
    /\ program[1].Expression.kind = "IfExpression"
    /\ status \in {"running", "done", "error", "panic"}
    /\ frames # <<>>

\* The byte offsets of that if expression: its OpJumpNotTruthy, its OpJump,
\* the start of its alternative and the first byte behind it.
IfLayout ==
    LET if == program[1].Expression
        jumpNotTruthy == CodeLen(<<E(if.Condition)>>) - 1
        jump == jumpNotTruthy + 3 + BranchLen(if.Consequence)
        alternative == jump + 3
    IN  [jumpNotTruthy |-> jumpNotTruthy, jump |-> jump,
         alternative |-> alternative,
         end |-> alternative + (IF if.HasAlternative THEN BranchLen(if.Alternative)
                                ELSE 1)]

\* The if expression of the program has been laid out as the rule says and
\* runs a branch that leaves one value.
IfRunsOneBranch ==
    StartsWithIf =>
        LET ins == Instructions(frames[1])
            truthy == ValueOf(program[1].Expression.Condition) \notin {False, Null}
            inMain == CanFetch /\ Len(frames) = 1
        IN  /\ ins[IfLayout.jumpNotTruthy + 1] = OpJumpNotTruthy
            /\ ReadUint16(ins, IfLayout.jumpNotTruthy + 1) = IfLayout.alternative
            /\ ins[IfLayout.jump + 1] = OpJump
            /\ ReadUint16(ins, IfLayout.jump + 1) = IfLayout.end
            /\ (inMain /\ OpAddr > IfLayout.jumpNotTruthy /\ OpAddr <= IfLayout.jump)
                  => truthy
            /\ (inMain /\ OpAddr >= IfLayout.alternative /\ OpAddr < IfLayout.end)
                  => ~truthy
            /\ (inMain /\ OpAddr = IfLayout.end) => sp = 1

\* A jump instruction of a compiled program pops what it has to and lands
\* where it has to.
JumpsLand ==
    /\ [][(program # <<>> /\ Fetching({OpJumpNotTruthy})) =>
             /\ status' = "running"
             /\ sp' = sp - 1
             /\ frames'[Len(frames')].ip + 1 =
                   (IF isTruthy(StackAt(stack, sp - 1)) THEN OpAddr + 3
                    ELSE Operand16)]_vars
    /\ [][(program # <<>> /\ Fetching({OpJump})) =>
             /\ sp' = sp
             /\ frames'[Len(frames')].ip + 1 = Operand16]_vars

\* C24: a compiled if expression runs exactly one of its branches and
\* leaves exactly one more value on the stack than there was before its
\* condition; OpJumpNotTruthy pops the condition and its operand is the
\* start of the alternative, the first byte behind the OpJump, whose
\* operand is the first byte behind the alternative; a jump lands on its
\* operand.
C24_IfLeavesOneValue == JumpsLand /\ []IfRunsOneBranch

\* The same for branches that end in an expression statement.
IfRunsOneBranchWithValue ==
    ( /\ StartsWithIf
      /\ program[1].Expression.Consequence # <<>>
      /\ Last(program[1].Expression.Consequence).kind = "ExpressionStatement"
      /\ program[1].Expression.HasAlternative =>
            /\ program[1].Expression.Alternative # <<>>
            /\ Last(program[1].Expression.Alternative).kind = "ExpressionStatement" )
        => IfRunsOneBranch

(***************************************************************************)
(* Properties of the stack pointer                                         *)
(***************************************************************************)
\* The opcodes whose case starts with a pop, and those whose case pushes
\* without popping first.
PoppingOpcodes ==
    {OpPop, OpAdd, OpSub, OpMul, OpDiv, OpEqual, OpNotEqual, OpGreaterThan,
     OpBang, OpMinus, OpJumpNotTruthy, OpSetGlobal}

PushingOpcodes == {OpConstant, OpTrue, OpFalse, OpNull, OpGetGlobal}

\* C23: while bytecode produced by the compiler runs, 0 <= sp <= 2048; a
\* push attempted at sp = 2048 makes Run() return `stack overflow` and
\* leaves sp and the stack as they are; no pop is executed at sp = 0.
C23_StackPointerInBounds ==
    /\ []((program # <<>> /\ status = "running") => (0 <= sp /\ sp <= StackSize))
    /\ [][(program # <<>> /\ Fetching(PushingOpcodes) /\ sp = StackSize) =>
             /\ status' = "error"
             /\ err' = "stack overflow"
             /\ sp' = sp
             /\ stack' = stack]_vars
    /\ [][(program # <<>> /\ Fetching(PoppingOpcodes)) => sp > 0]_vars

(***************************************************************************)
(* lexer: the input is a sequence of bytes, a literal the bytes it holds.  *)
(***************************************************************************)
MaxInput == 3
\* Calls of NextToken() followed after the end of the input.
MaxPastEnd == 3

NUL == 0
Space == 32
BangCh == 33
QuoteCh == 34
DigitOne == 49
EqualCh == 61
AtCh == 64
LetterF == 102
LetterN == 110

InputBytes == {NUL, Space, BangCh, QuoteCh, DigitOne, EqualCh, AtCh, LetterF, LetterN}

\* func (l *Lexer) readChar()
readChar(l) ==
    [l EXCEPT !.ch = IF l.readPosition >= Len(l.input) THEN NUL
                     ELSE l.input[l.readPosition + 1],
              !.position = l.readPosition,
              !.readPosition = l.readPosition + 1]

\* func New(input string) *Lexer
NewLexer(input) ==
    readChar([input |-> input, position |-> 0, readPosition |-> 0, ch |-> NUL])

\* func (l *Lexer) peekChar() byte
peekChar(l) ==
    IF l.readPosition >= Len(l.input) THEN NUL ELSE l.input[l.readPosition + 1]

isLetter(ch) == (97 <= ch /\ ch <= 122) \/ (65 <= ch /\ ch <= 90) \/ ch = 95

isDigit(ch) == 48 <= ch /\ ch <= 57

isWhiteSpace(ch) == ch \in {32, 9, 10, 13}

\* The loop `for cond(l.ch) { l.readChar() }` of skipWhiteSpace,
\* readIdentifier and readNumber.
RECURSIVE readWhile(_, _)
readWhile(l, class) ==
    IF    \/ class = "space" /\ isWhiteSpace(l.ch)
          \/ class = "letter" /\ isLetter(l.ch)
          \/ class = "digit" /\ isDigit(l.ch)
    THEN readWhile(readChar(l), class)
    ELSE l

skipWhiteSpace(l) == readWhile(l, "space")

\* l.input[from:to]
Slice(input, from, to) == SubSeq(input, from + 1, to)

\* func (l *Lexer) readString() string: the lexer after the loop.
RECURSIVE readStringLoop(_)
readStringLoop(l) ==
    LET r == readChar(l)
    IN  IF r.ch = QuoteCh \/ r.ch = NUL THEN r ELSE readStringLoop(r)

\* var keywords, with the bytes of "fn" the one keyword of the alphabet.
LookupIdent(ident) ==
    IF ident = <<LetterF, LetterN>> THEN "FUNCTION" ELSE "IDENT"

SingleByteTokens ==
    [c \in {BangCh, EqualCh} |-> IF c = BangCh THEN "!" ELSE "="]

\* func (l *Lexer) NextToken() token.Token: the token and the lexer after.
LexNextToken(l0) ==
    LET l == skipWhiteSpace(l0)
    IN  CASE l.ch \in {BangCh, EqualCh} ->
               IF peekChar(l) = EqualCh
               THEN LET r == readChar(l)
                    IN  [tok |-> Token(IF l.ch = BangCh THEN "!=" ELSE "==", <<l.ch, r.ch>>),
                         l |-> readChar(r)]
               ELSE [tok |-> Token(SingleByteTokens[l.ch], <<l.ch>>), l |-> readChar(l)]
          [] l.ch = QuoteCh ->
               LET r == readStringLoop(l)
               IN  [tok |-> Token("STRING", Slice(l.input, l.position + 1, r.position)),
                    l |-> readChar(r)]
          [] l.ch = NUL ->
               [tok |-> Token("EOF", <<>>), l |-> readChar(l)]
          [] isLetter(l.ch) ->
               LET r == readWhile(l, "letter")
               IN  [tok |-> Token(LookupIdent(Slice(l.input, l.position, r.position)),
                                  Slice(l.input, l.position, r.position)),
                    l |-> r]
          [] isDigit(l.ch) ->
               LET r == readWhile(l, "digit")
               IN  [tok |-> Token("INT", Slice(l.input, l.position, r.position)), l |-> r]
          [] OTHER ->
               [tok |-> Token("ILLEGAL", <<l.ch>>), l |-> readChar(l)]

RECURSIVE ByteStrings(_)
ByteStrings(n) ==
    IF n = 0 THEN {<<>>}
    ELSE ByteStrings(n - 1) \cup
         {Append(b, c) : b \in {x \in ByteStrings(n - 1) : Len(x) = n - 1}, c \in InputBytes}

Inputs == ByteStrings(MaxInput)

LexerNew ==
    \E input \in Inputs :
        /\ applied.fn = "none"
        /\ applied' = [fn |-> "Lexer", l |-> NewLexer(input), calls |-> 0,
                       tok |-> Token("none", <<>>)]
        /\ OnlyApplied

LexerNextToken ==
    /\ applied.fn = "Lexer"
    /\ applied.l.readPosition <= Len(applied.l.input) + MaxPastEnd
    /\ LET r == LexNextToken(applied.l)
       IN  applied' = [applied EXCEPT !.l = r.l, !.tok = r.tok, !.calls = @ + 1]
    /\ OnlyApplied

LexerNext ==
    \/ LexerNew
    \/ LexerNextToken

LexerSpec == Init /\ [][LexerNext]_vars

(***************************************************************************)
(* Properties of the disassembler                                          *)
(***************************************************************************)
\* C26: Instructions.String() terminates on every buffer: each iteration of
\* its loop that goes round again advances the read offset, also on a byte
\* that is no defined opcode, and the call comes to an end.
C26_DisassemblyTerminates ==
    /\ [][( /\ applied.fn = "Instructions.String"
            /\ applied.pc = "loop"
            /\ applied.i < Len(applied.ins)
            /\ applied'.pc = "loop" ) => applied'.i > applied.i]_vars
    /\ (applied.fn = "Instructions.String") ~>
          (applied.fn = "Instructions.String" /\ applied.pc # "loop")

\* On a defined opcode the iteration advances past the instruction.
DefinedOpcodesAdvance ==
    [][( /\ applied.fn = "Instructions.String"
         /\ applied.pc = "loop"
         /\ applied.i < Len(applied.ins)
         /\ Lookup(applied.ins[applied.i + 1])
         /\ applied'.pc = "loop" ) =>
            applied'.i = applied.i + 1 + Sum(OperandWidth(applied.ins[applied.i + 1]))]_vars

(***************************************************************************)
(* Properties of the lexer                                                 *)
(***************************************************************************)
\* C22: once NextToken() has returned an EOF token, every later call of
\* NextToken() on the same lexer returns EOF, whatever bytes the input holds.
C22_EofIsFinal ==
    [][( /\ applied.fn = "Lexer"
         /\ applied.tok.Type = "EOF"
         /\ applied'.calls = applied.calls + 1 ) => applied'.tok.Type = "EOF"]_vars

\* The same for inputs that hold no NUL byte.
EofIsFinalWithoutNul ==
    [][( /\ applied.fn = "Lexer"
         /\ \A k \in DOMAIN applied.l.input : applied.l.input[k] # NUL
         /\ applied.tok.Type = "EOF"
         /\ applied'.calls = applied.calls + 1 ) => applied'.tok.Type = "EOF"]_vars

\* A token of the input is returned only while the bytes last.
TokensEndWithInput ==
    (applied.fn = "Lexer" /\ applied.calls > 0 /\ applied.tok.Type # "EOF")
        => applied.l.position <= Len(applied.l.input) + 1

(***************************************************************************)
(* Properties of the tree-walking evaluator                                *)
(***************************************************************************)
Evaluated == applied.fn = "Eval"

\* The program is an if expression, alone or followed by other statements.
IfFirst ==
    /\ Evaluated
    /\ applied.program # <<>>
    /\ applied.program[1].kind = "ExpressionStatement"
    /\ applied.program[1].Expression.kind = "IfExpression"

\* How often Eval was called for `part` of the if expression ie.
Times(part, ie) ==
    Cardinality({k \in DOMAIN applied.st.trace :
                    /\ applied.st.trace[k].kind = part
                    /\ applied.st.trace[k].If = ie})

\* Monkey's truthiness: every value but false and null.
Truthy(obj) == ~(obj.type = NULL_OBJ \/ (obj.type = BOOLEAN_OBJ /\ obj.value = 0))

\* C27: Eval of an if expression evaluates the condition once and then one
\* branch once, the consequence when the condition is truthy and else the
\* alternative when there is one; with a condition that is not truthy and
\* no alternative it evaluates no block and returns NULL.
C27_IfEvaluatesOneBranchOnce ==
    IfFirst =>
        LET ie == applied.program[1].Expression
            condition == Eval(ie.Condition, 1, NewState).obj
        IN  /\ Times("Condition", ie) = 1
            /\ ~Stops(condition) =>
                  /\ Times("Consequence", ie) = IF Truthy(condition) THEN 1 ELSE 0
                  /\ Times("Alternative", ie) =
                        IF ~Truthy(condition) /\ ie.HasAlternative THEN 1 ELSE 0
                  /\ (~Truthy(condition) /\ ~ie.HasAlternative /\ Len(applied.program) = 1)
                        => applied.obj = Null

\* The program, an if expression alone or followed by other statements, was
\* evaluated by one of the two copies of the package.
IfFirstInEitherCopy ==
    /\ applied.fn \in {"Eval", "Eval(part_004)"}
    /\ applied.program # <<>>
    /\ applied.program[1].kind = "ExpressionStatement"
    /\ applied.program[1].Expression.kind = "IfExpression"

\* C27 for both copies of package evaluator: Eval of an if expression
\* evaluates the condition once and then one branch once, the consequence
\* when the condition is truthy and else the alternative when there is one;
\* with a condition that is not truthy and no alternative it evaluates no
\* block and returns NULL.
C27_BothCopiesEvaluateOneBranchOnce ==
    IfFirstInEitherCopy =>
        LET ie == applied.program[1].Expression
            condition == Eval(ie.Condition, 1,
                              [NewState EXCEPT !.part004 = applied.st.part004]).obj
        IN  /\ Times("Condition", ie) = 1
            /\ ~Stops(condition) =>
                  /\ Times("Consequence", ie) = IF Truthy(condition) THEN 1 ELSE 0
                  /\ Times("Alternative", ie) =
                        IF ~Truthy(condition) /\ ie.HasAlternative THEN 1 ELSE 0
                  /\ (~Truthy(condition) /\ ~ie.HasAlternative /\ Len(applied.program) = 1)
                        => applied.obj = Null

\* An if without else whose condition is not truthy was evaluated.
C27_Witness_NoAlternative ==
    /\ IfFirst
    /\ ~applied.program[1].Expression.HasAlternative
    /\ Len(applied.program) = 1
    /\ applied.program[1].Expression.Condition = Infix(">", Lit(1), Lit(2))
    /\ applied.obj = Null
    /\ Times("Condition", applied.program[1].Expression) = 1
    /\ Times("Consequence", applied.program[1].Expression) = 0

Trace == applied.st.trace

StatementKinds == {"ExpressionStatement", "LetStatement", "ReturnStatement"}

\* Eval was called on no call expression: every statement evaluated is one
\* of the program or of a block nested in it.
NoCalls == \A k \in DOMAIN Trace : Trace[k].kind # "CallExpression"

\* Every if expression evaluated is the expression of an expression
\* statement.
IfsAreStatements ==
    \A k \in DOMAIN Trace :
        Trace[k].kind = "IfExpression" => (k > 1 /\ Trace[k - 1].kind = "ExpressionStatement")

\* After the return statement evaluated first, the program evaluates no
\* statement and yields the returned value.
FirstReturnEndsProgram ==
    \A k \in DOMAIN Trace :
        ( /\ Trace[k].kind = "ReturnStatement"
          /\ \A j \in 1 .. k - 1 : Trace[j].kind # "ReturnStatement" ) =>
            /\ \A j \in k + 1 .. Len(Trace) : Trace[j].kind \notin StatementKinds
            /\ applied.obj = Integer(Trace[k].ReturnValue.Value)

\* let f = fn() { return n; 9 }; f(); 7
ReturnThenCallerGoesOn(n) ==
    <<LetStatement("f", Fn(<<>>, <<ReturnStatement(Lit(n)), E(Lit(9))>>)),
      E(Call(Id("f"), <<>>)), E(Lit(7))>>

\* let f = fn() { if (c) { if (true) { return n; n + 1 } 9 } 6 }; f() + 10
ReturnInNestedBlocks(n, c) ==
    <<LetStatement("f", Fn(<<>>,
         <<E(If(c, <<E(If(Boolean(TRUE), <<ReturnStatement(Lit(n)), E(Lit(n + 1))>>)),
                     E(Lit(9))>>)),
           E(Lit(6))>>)),
      E(Infix("+", Call(Id("f"), <<>>), Lit(10)))>>

EvaluatedStatement(stmt) ==
    \E k \in DOMAIN Trace : Trace[k].kind = stmt.kind /\ Trace[k] = stmt

\* A return inside a called function ends that call only.
ReturnEndsOnlyTheCall ==
    /\ \A n \in 0 .. MaxInt :
          applied.program = ReturnThenCallerGoesOn(n) =>
              /\ applied.obj = Integer(7)
              /\ ~EvaluatedStatement(E(Lit(9)))
              /\ EvaluatedStatement(E(Lit(7)))
    /\ \A n \in 0 .. MaxInt, c \in BoolLits :
          applied.program = ReturnInNestedBlocks(n, c) =>
              /\ applied.obj = Integer((IF c.Value THEN n ELSE 6) + 10)
              /\ c.Value => /\ ~EvaluatedStatement(E(Lit(n + 1)))
                             /\ ~EvaluatedStatement(E(Lit(9)))
                             /\ ~EvaluatedStatement(E(Lit(6)))

\* C28: a return statement evaluated inside any depth of nested blocks ends
\* the function body (or the program) it is in: no later statement of an
\* enclosing block is evaluated and the call (or the program) yields the
\* returned value, unwrapped; a return inside a called function ends that
\* call only and the caller goes on.
C28_ReturnBubblesOut ==
    Evaluated =>
        /\ NoCalls => FirstReturnEndsProgram
        /\ ReturnEndsOnlyTheCall

\* The same where every if expression is a statement of its block.
ReturnBubblesThroughStatements ==
    Evaluated =>
        /\ (NoCalls /\ IfsAreStatements) => FirstReturnEndsProgram
        /\ ReturnEndsOnlyTheCall

Envs == applied.st.envs

ScopeNames == {"x", "a", "b", "f", "zz"}

\* Set in one environment leaves every other environment as it was and
\* makes the name read back there.
SetIsLocal ==
    \A e \in DOMAIN Envs, name \in ScopeNames :
        LET after == EnvSet(Envs, e, name, Integer(99))
        IN  /\ \A o \in DOMAIN Envs : o # e => after[o] = Envs[o]
            /\ after[e].outer = Envs[e].outer
            /\ \A other \in DOMAIN Envs[e].store :
                  other # name => after[e].store[other] = Envs[e].store[other]
            /\ EnvGet(after, e, name) = [ok |-> TRUE, obj |-> Integer(99)]

\* Get returns the binding of the environment itself when it has one and
\* what the outer environment returns when it has not.
GetIsInnermost ==
    \A e \in DOMAIN Envs, name \in ScopeNames :
        LET got == EnvGet(Envs, e, name)
        IN  IF name \in DOMAIN Envs[e].store
            THEN got.ok /\ got.obj = Envs[e].store[name]
            ELSE IF Envs[e].outer = 0 THEN ~got.ok
            ELSE got = EnvGet(Envs, Envs[e].outer, name)

NotFound(name) == Error(<<"identifier not found", name>>)

\* let x = n; let f = fn(a) { let b = m; x }; f(5); <last>
CallBindsLocals(n, m, last) ==
    <<LetStatement("x", Lit(n)),
      LetStatement("f", Fn(<<"a">>, <<LetStatement("b", Lit(m)), E(Id("x"))>>)),
      E(Call(Id("f"), <<Lit(5)>>)), E(Id(last))>>

\* let x = n; let f = fn(x) { let x = m; x }; f(5); x
CallShadows(n, m) ==
    <<LetStatement("x", Lit(n)),
      LetStatement("f", Fn(<<"x">>, <<LetStatement("x", Lit(m)), E(Id("x"))>>)),
      E(Call(Id("f"), <<Lit(5)>>)), E(Id("x"))>>

\* let x = n; let f = fn() { x }; let g = fn() { let x = m; f() }; g()
CalledWhereShadowed(n, m) ==
    <<LetStatement("x", Lit(n)),
      LetStatement("f", Fn(<<>>, <<E(Id("x"))>>)),
      LetStatement("g", Fn(<<>>, <<LetStatement("x", Lit(m)), E(Call(Id("f"), <<>>))>>)),
      E(Call(Id("g"), <<>>))>>

\* let mk = fn(x) { fn() { x } }; let x = m; mk(n)()
ClosureOverParameter(n, m) ==
    <<LetStatement("mk", Fn(<<"x">>, <<E(Fn(<<>>, <<E(Id("x"))>>))>>)),
      LetStatement("x", Lit(m)),
      E(Call(Call(Id("mk"), <<Lit(n)>>), <<>>))>>

\* What the bindings of a call leave behind, and where free names resolve.
CallsAreScoped ==
    \A n \in 0 .. MaxInt, m \in 3 .. 3 + MaxInt :
        /\ \A last \in {"x", "a", "b"} :
              applied.program = CallBindsLocals(n, m, last) =>
                  /\ DOMAIN Envs[1].store = {"x", "f"}
                  /\ Envs[1].store["x"] = Integer(n)
                  /\ IF last = "x" THEN applied.obj = Integer(n)
                     ELSE applied.obj.type = ERROR_OBJ /\ applied.obj = NotFound(last)
        /\ applied.program = CallShadows(n, m) =>
              /\ applied.obj = Integer(n)
              /\ EnvGet(Envs, 2, "x").obj = Integer(m)
              /\ EnvGet(Envs, 1, "x").obj = Integer(n)
        /\ applied.program = CalledWhereShadowed(n, m) => applied.obj = Integer(n)
        /\ applied.program = ClosureOverParameter(n, m) => applied.obj = Integer(n)

\* C29: Set on an enclosed environment changes no binding of its outer
\* environment and Get returns the innermost binding of a name, going to
\* the outer chain only when the name is absent; the parameters and the
\* let bindings of a call are not visible to the caller afterwards, and a
\* function body resolves its free names where the function was defined.
C29_EnvironmentsAreLexical ==
    Evaluated => (SetIsLocal /\ GetIsInnermost /\ CallsAreScoped)

\* A function that reads x was called from a function that shadows x, and
\* the call had an environment of its own enclosed in the first.
C29_Witness_CalledWhereShadowed ==
    /\ Evaluated
    /\ applied.program = CalledWhereShadowed(1, 4)
    /\ applied.obj = Integer(1)
    /\ Len(Envs) = 3
    /\ Envs[2].store["x"] = Integer(4)
    /\ Envs[3].outer = 1

(***************************************************************************)
(* The evaluator and the VM on the same program                            *)
(***************************************************************************)
RECURSIVE PlainExpression(_)
\* Built from integer literals, true and false, prefix and infix
\* operators and if/else whose blocks hold such expressions.
PlainExpression(e) ==
    LET PlainBlock(block) ==
            \A k \in DOMAIN block :
                /\ block[k].kind = "ExpressionStatement"
                /\ PlainExpression(block[k].Expression)
    IN  CASE e.kind \in {"IntegerLiteral", "Boolean"} -> TRUE
          [] e.kind = "PrefixExpression" -> PlainExpression(e.Right)
          [] e.kind = "InfixExpression" -> PlainExpression(e.Left) /\ PlainExpression(e.Right)
          [] e.kind = "IfExpression" ->
               /\ PlainExpression(e.Condition)
               /\ PlainBlock(e.Consequence)
               /\ e.HasAlternative => PlainBlock(e.Alternative)
          [] OTHER -> FALSE

\* The first line of a session was such a program and its run has ended.
PlainProgramRan ==
    /\ lines = 1
    /\ program # <<>>
    /\ status \in {"done", "error", "panic"}
    /\ \A k \in DOMAIN program :
          /\ program[k].kind = "ExpressionStatement"
          /\ PlainExpression(program[k].Expression)

\* Eval returned a value that is no Error.
EvalReturnsValue ==
    EvalProgram(program).obj.type \in {INTEGER_OBJ, BOOLEAN_OBJ, NULL_OBJ}

\* C30: for every program of integer literals, true and false, prefix and
\* infix operators and if/else on which Eval returns a value that is no
\* Error, the VM run of the compiled program returns no error and
\* LastPoppedStackElem() is that value.
C30_BackendsAgree ==
    (PlainProgramRan /\ EvalReturnsValue) =>
        /\ status = "done"
        /\ LastPoppedStackElem = EvalProgram(program).obj

RECURSIVE HasMixedEquality(_)
\* Somewhere == or != stands between an integer expression and one that is
\* not.
HasMixedEquality(e) ==
    LET IsInteger(x) ==
            \/ x.kind = "IntegerLiteral"
            \/ x.kind = "PrefixExpression" /\ x.Operator = "-"
            \/ x.kind = "InfixExpression" /\ x.Operator \in {"+", "-", "*", "/"}
        InBlock(block) ==
            \E k \in DOMAIN block :
                block[k].kind = "ExpressionStatement" /\ HasMixedEquality(block[k].Expression)
    IN  CASE e.kind = "PrefixExpression" -> HasMixedEquality(e.Right)
          [] e.kind = "InfixExpression" ->
               \/ e.Operator \in {"==", "!="} /\ IsInteger(e.Left) # IsInteger(e.Right)
               \/ HasMixedEquality(e.Left)
               \/ HasMixedEquality(e.Right)
          [] e.kind = "IfExpression" ->
               \/ HasMixedEquality(e.Condition)
               \/ InBlock(e.Consequence)
               \/ InBlock(e.Alternative)
          [] OTHER -> FALSE

RECURSIVE HasEmptyBlock(_)
HasEmptyBlock(e) ==
    LET InBlock(block) ==
            \/ block = <<>>
            \/ \E k \in DOMAIN block :
                  block[k].kind = "ExpressionStatement" /\ HasEmptyBlock(block[k].Expression)
    IN  CASE e.kind = "PrefixExpression" -> HasEmptyBlock(e.Right)
          [] e.kind = "InfixExpression" -> HasEmptyBlock(e.Left) \/ HasEmptyBlock(e.Right)
          [] e.kind = "IfExpression" ->
               \/ HasEmptyBlock(e.Condition)
               \/ InBlock(e.Consequence)
               \/ e.HasAlternative /\ InBlock(e.Alternative)
          [] OTHER -> FALSE

\* The backends agree where no == or != compares an integer with another
\* value and no block is empty.
BackendsAgreeOnOneType ==
    ( /\ PlainProgramRan
      /\ EvalReturnsValue
      /\ \A k \in DOMAIN program :
            /\ ~HasMixedEquality(program[k].Expression)
            /\ ~HasEmptyBlock(program[k].Expression) ) =>
        /\ status = "done"
        /\ LastPoppedStackElem = EvalProgram(program).obj

(***************************************************************************)
(* Properties of the builtins on arrays                                    *)
(***************************************************************************)
\* The arrays the program left bound to a name of its environment.
BoundArrays ==
    {Envs[1].store[n] : n \in {x \in DOMAIN Envs[1].store : Envs[1].store[x].type = ARRAY_OBJ}}

\* Every backing array of `before` is in `after` as it was.
HeapKept(before, after) ==
    /\ Len(after) >= Len(before)
    /\ \A id \in DOMAIN before : after[id] = before[id]

\* The array object holds exactly `elements` in a backing array that
\* `before` has not.
FreshArray(obj, elements, before, after) ==
    /\ obj.type = ARRAY_OBJ
    /\ obj.Elements.arr \notin DOMAIN before
    /\ Elements(after, obj.Elements) = elements

\* rest(a) on an array the program made
RestKeepsArgument ==
    \A a \in BoundArrays :
        LET before == applied.st.heap
            r == builtinRest(<<a>>, applied.st)
            elements == Elements(before, a.Elements)
        IN  /\ HeapKept(before, r.st.heap)
            /\ IF elements = <<>> THEN r.obj = Null
               ELSE FreshArray(r.obj, Tail(elements), before, r.st.heap)

\* push(a, v), then push on the result and push(a, w) again
PushKeepsArgument ==
    \A a \in BoundArrays, v \in {Integer(8)}, w \in {Integer(9)} :
        LET before == applied.st.heap
            elements == Elements(before, a.Elements)
            r1 == builtinPush(<<a, v>>, applied.st)
            r2 == builtinPush(<<r1.obj, w>>, r1.st)
            r3 == builtinPush(<<a, w>>, r2.st)
        IN  /\ HeapKept(before, r1.st.heap)
            /\ FreshArray(r1.obj, Append(elements, v), before, r1.st.heap)
            /\ HeapKept(r1.st.heap, r2.st.heap)
            /\ FreshArray(r2.obj, Append(Append(elements, v), w), r1.st.heap, r2.st.heap)
            /\ HeapKept(r2.st.heap, r3.st.heap)
            /\ FreshArray(r3.obj, Append(elements, w), r2.st.heap, r3.st.heap)
            /\ Elements(r3.st.heap, a.Elements) = elements
            /\ Elements(r3.st.heap, r1.obj.Elements) = Append(elements, v)

\* let a = [...]; let b = push(a, 8); let c = push(a, 9); <last>[len(a)]
PushedTwice(elems, last) ==
    <<LetStatement("a", ArrayLiteral(elems)),
      LetStatement("b", Call(Id("push"), <<Id("a"), Lit(8)>>)),
      LetStatement("c", Call(Id("push"), <<Id("a"), Lit(9)>>)),
      E(IndexExpression(Id(last), Lit(Len(elems))))>>

SomeElements == {<<>>, <<Lit(1)>>, <<Lit(1), Lit(2)>>, <<Lit(1), Lit(2), Lit(0)>>}

\* Each push of the program gave an array of its own.
PushesInProgram ==
    \A elems \in SomeElements :
        /\ applied.program = PushedTwice(elems, "a") => applied.obj = Null
        /\ applied.program = PushedTwice(elems, "b") => applied.obj = Integer(8)

\* C21: rest(a) and push(a, v) leave the array a with the same elements in
\* the same order and return a newly allocated array (rest: the elements
\* of a from index 1 on, or Null when a is empty; push: the elements of a
\* followed by v) whose later use does not change a.
C21_RestAndPushCopy ==
    Evaluated => (RestKeepsArgument /\ PushKeepsArgument /\ PushesInProgram)

\* An array of three elements, made with room for a fourth, was pushed to
\* twice and the first result still ends in its own element.
C21_Witness_PushedTwice ==
    /\ Evaluated
    /\ applied.program = PushedTwice(<<Lit(1), Lit(2), Lit(0)>>, "b")
    /\ applied.obj = Integer(8)
    /\ Len(applied.st.heap) = 3
    /\ Len(applied.st.heap[1]) = 4
    /\ Cardinality(BoundArrays) = 3

====
